---------------------------- MODULE Spec2Model ----------------------------
(***************************************************************************)
(* A model of tariff_fetch's RateAcuity navigation engine:                 *)
(*   - DropdownState._select on one dropdown (SpecSelect),                 *)
(*   - the state classes of rateacuity/state.py driven by an arbitrary    *)
(*     caller (SpecNav),                                                   *)
(*   - process_rateacuity with its tenacity retry loop and the session     *)
(*     scope of create_context (Spec).                                     *)
(* Texts are sequences of one-character strings so that str.strip() is     *)
(* computed, not assumed.                                                  *)
(***************************************************************************)
EXTENDS Integers, Sequences, FiniteSets, TLC

\* ------------------------------------------------------------------------
\* Bounds of the model
\* ------------------------------------------------------------------------
MaxStrLen == 2
MaxOpts == 2

\* The characters the portal's texts are made of: one letter and the blank.
Chars == {"A", " "}

Str == UNION {[1..n -> Chars] : n \in 0..MaxStrLen}

\* ------------------------------------------------------------------------
\* str.strip()
\* ------------------------------------------------------------------------
IsSpace(c) == c = " "

RECURSIVE LStrip(_)
LStrip(s) == IF s = <<>> THEN <<>>
             ELSE IF IsSpace(Head(s)) THEN LStrip(Tail(s)) ELSE s

RECURSIVE RStrip(_)
RStrip(s) == IF s = <<>> THEN <<>>
             ELSE IF IsSpace(s[Len(s)]) THEN RStrip(SubSeq(s, 1, Len(s) - 1)) ELSE s

Strip(s) == RStrip(LStrip(s))

\* ------------------------------------------------------------------------
\* A dropdown of the page: whether the element is in the DOM, the texts of
\* its options in document order, and the index of the selected option
\* (0 when it has no option).
\* ------------------------------------------------------------------------
OptionLists == UNION {[1..n -> Str] : n \in 0..MaxOpts}

Dropdowns == {[present |-> p, opts |-> o, sel |-> i] :
                p \in BOOLEAN, o \in OptionLists, i \in 0..MaxOpts}

DropdownOK(dd) == IF dd.opts = <<>> THEN dd.sel = 0 ELSE dd.sel \in 1..Len(dd.opts)

\* state.py:119-121: the text of every option, in document order.
VisibleOptions(dd) == dd.opts

InList(x, l) == \E i \in 1..Len(l) : l[i] = x

\* state.py:125: {option.strip(): option for option in raw_options}.  A later
\* option with the same stripped text replaces the earlier value, the key keeps
\* its first position.
NormalizedHas(opts, key) == \E i \in 1..Len(opts) : Strip(opts[i]) = key

NormalizedGet(opts, key) ==
  LET idx == {i \in 1..Len(opts) : Strip(opts[i]) = key}
      last == CHOOSE i \in idx : \A j \in idx : j <= i
  IN  opts[last]

RECURSIVE NormalizedKeys(_)
NormalizedKeys(opts) ==
  IF opts = <<>> THEN <<>>
  ELSE LET front == NormalizedKeys(SubSeq(opts, 1, Len(opts) - 1))
           k == Strip(opts[Len(opts)])
       IN  IF InList(k, front) THEN front ELSE Append(front, k)

\* state.py:128-135: the visible option a choice resolves to; found = FALSE is
\* the else branch that raises ValueError.
ResolveOrDefault(raw_options, choice) ==
  IF InList(choice, raw_options)
    THEN [found |-> TRUE, visible_choice |-> choice, normalized_choice |-> Strip(choice)]
  ELSE IF NormalizedHas(raw_options, Strip(choice))
    THEN [found |-> TRUE, visible_choice |-> NormalizedGet(raw_options, Strip(choice)),
          normalized_choice |-> Strip(choice)]
  ELSE IF raw_options # <<>>
    THEN [found |-> TRUE, visible_choice |-> raw_options[1],
          normalized_choice |-> Strip(raw_options[1])]
  ELSE [found |-> FALSE, visible_choice |-> <<>>, normalized_choice |-> Strip(choice)]

Resolve(raw_options, choice) ==
  IF InList(choice, raw_options)
    THEN [found |-> TRUE, visible_choice |-> choice, normalized_choice |-> Strip(choice)]
  ELSE IF NormalizedHas(raw_options, Strip(choice))
    THEN [found |-> TRUE, visible_choice |-> NormalizedGet(raw_options, Strip(choice)),
          normalized_choice |-> Strip(choice)]
  ELSE [found |-> FALSE, visible_choice |-> <<>>, normalized_choice |-> Strip(choice)]

\* state.py:139: select.first_selected_option.text.strip()
CurrentText(dd) == Strip(dd.opts[dd.sel])

\* state.py:140: the guard of the selection action.
NeedsSelectAlways(current, normalized_choice) == TRUE

NeedsSelect(current, normalized_choice) == current # normalized_choice

\* state.py:142: Select.select_by_visible_text picks the first option whose
\* text is the given one.
SelectByVisibleText(dd, text) ==
  LET idx == {i \in 1..Len(dd.opts) : dd.opts[i] = text}
  IN  [dd EXCEPT !.sel = CHOOSE i \in idx : \A j \in idx : i <= j]

\* state.py:123-143: DropdownState._select on dropdown dd.  The result names
\* the exception raised ("none" when next_state is returned), the values the
\* ValueError message carries, the number of select_by_visible_text calls and
\* the dropdown afterwards.  A dropdown that is not in the DOM makes the
\* bounded wait of _dropdown (state.py:116-117) raise TimeoutException.
NoText == <<>>

SelectResult(err, requested, available, calls, dd) ==
  [err |-> err, requested |-> requested, available |-> available,
   selectCalls |-> calls, dd |-> dd]

DoSelect(dd, choice) ==
  IF ~dd.present
    THEN SelectResult("TimeoutException", NoText, <<>>, 0, dd)
    ELSE LET raw_options == VisibleOptions(dd)
             r == Resolve(raw_options, choice)
         IN  IF ~r.found
               THEN SelectResult("ValueError", choice, NormalizedKeys(raw_options), 0, dd)
             ELSE IF NeedsSelect(CurrentText(dd), r.normalized_choice)
               THEN SelectResult("none", NoText, <<>>, 1,
                                 SelectByVisibleText(dd, r.visible_choice))
             ELSE SelectResult("none", NoText, <<>>, 0, dd)


\* ------------------------------------------------------------------------
\* The state classes of rateacuity/state.py.  A state object holds nothing
\* but the scraping context, so an object is known by its class.
\* ------------------------------------------------------------------------
Classes == {"State", "LoginState", "PortalState", "SelectReportState", "ElectricState",
            "DropdownState",
            "ElectricBenchmarkAllStateDropdown", "ElectricBenchmarkAllUtilityDropdown",
            "ElectricBenchmarkAllScheduleDropdown",
            "ElectricBenchmarkStateDropdown", "ElectricBenchmarkUtilityDropdown",
            "ElectricBenchmarkScheduleDropdown",
            "ReportState", "ElectricBenchmarkReport", "ElectricBenchmarkAllReport"}

\* The base class named in each class statement ("object" for State).
Base(c) ==
  CASE c = "State" -> "object"
    [] c = "LoginState" -> "State"
    [] c = "PortalState" -> "State"
    [] c = "SelectReportState" -> "State"
    [] c = "ElectricState" -> "SelectReportState"
    [] c = "DropdownState" -> "State"
    [] c = "ElectricBenchmarkAllStateDropdown" -> "DropdownState"
    [] c = "ElectricBenchmarkAllUtilityDropdown" -> "ElectricBenchmarkAllStateDropdown"
    [] c = "ElectricBenchmarkAllScheduleDropdown" -> "ElectricBenchmarkAllUtilityDropdown"
    [] c = "ElectricBenchmarkStateDropdown" -> "DropdownState"
    [] c = "ElectricBenchmarkUtilityDropdown" -> "ElectricBenchmarkStateDropdown"
    [] c = "ElectricBenchmarkScheduleDropdown" -> "ElectricBenchmarkUtilityDropdown"
    [] c = "ReportState" -> "State"
    [] c = "ElectricBenchmarkReport" -> "ReportState"
    [] c = "ElectricBenchmarkAllReport" -> "ReportState"

\* The public methods each class body defines itself.
OwnMethods(c) ==
  CASE c = "LoginState" -> {"login"}
    [] c = "PortalState" -> {"electric"}
    [] c = "ElectricState" -> {"benchmark", "benchmark_all"}
    [] c \in {"ElectricBenchmarkAllStateDropdown", "ElectricBenchmarkStateDropdown"}
         -> {"get_states", "select_state"}
    [] c \in {"ElectricBenchmarkAllUtilityDropdown", "ElectricBenchmarkUtilityDropdown"}
         -> {"get_utilities", "select_utility"}
    [] c \in {"ElectricBenchmarkAllScheduleDropdown", "ElectricBenchmarkScheduleDropdown"}
         -> {"get_schedules", "select_schedule"}
    [] c = "ReportState" -> {"download_excel", "as_sections", "as_dataframe"}
    [] c \in {"ElectricBenchmarkReport", "ElectricBenchmarkAllReport"}
         -> {"back_to_selections"}
    [] OTHER -> {}

\* The element_id a class body sets, "" when it sets none.
OwnElementId(c) ==
  CASE c \in {"ElectricBenchmarkAllStateDropdown", "ElectricBenchmarkStateDropdown"}
         -> "StateSelect"
    [] c \in {"ElectricBenchmarkAllUtilityDropdown", "ElectricBenchmarkUtilityDropdown"}
         -> "UtilitySelect"
    [] c \in {"ElectricBenchmarkAllScheduleDropdown", "ElectricBenchmarkScheduleDropdown"}
         -> "ScheduleSelect"
    [] OTHER -> ""

\* Python's attribute lookup along the (single-inheritance) base chain.
RECURSIVE Methods(_)
Methods(c) == IF c = "object" THEN {} ELSE OwnMethods(c) \cup Methods(Base(c))

RECURSIVE DefiningClass(_, _)
DefiningClass(c, m) == IF m \in OwnMethods(c) THEN c ELSE DefiningClass(Base(c), m)

RECURSIVE ElementId(_)
ElementId(c) ==
  IF c = "object" THEN ""
  ELSE IF OwnElementId(c) # "" THEN OwnElementId(c) ELSE ElementId(Base(c))

\* The class of the state object that method m, as written in class d, returns.
ReturnClassSkipping(d, m) ==
  CASE d = "LoginState" /\ m = "login" -> "PortalState"
    [] d = "PortalState" /\ m = "electric" -> "ElectricState"
    [] d = "ElectricState" /\ m = "benchmark" -> "ElectricBenchmarkStateDropdown"
    [] d = "ElectricState" /\ m = "benchmark_all" -> "ElectricBenchmarkAllStateDropdown"
    [] d = "ElectricBenchmarkStateDropdown" /\ m = "select_state"
         -> "ElectricBenchmarkUtilityDropdown"
    [] d = "ElectricBenchmarkUtilityDropdown" /\ m = "select_utility"
         -> "ElectricBenchmarkReport"
    [] d = "ElectricBenchmarkScheduleDropdown" /\ m = "select_schedule"
         -> "ElectricBenchmarkReport"
    [] d = "ElectricBenchmarkReport" /\ m = "back_to_selections"
         -> "ElectricBenchmarkScheduleDropdown"
    [] d = "ElectricBenchmarkAllStateDropdown" /\ m = "select_state"
         -> "ElectricBenchmarkAllUtilityDropdown"
    [] d = "ElectricBenchmarkAllUtilityDropdown" /\ m = "select_utility"
         -> "ElectricBenchmarkAllReport"
    [] d = "ElectricBenchmarkAllScheduleDropdown" /\ m = "select_schedule"
         -> "ElectricBenchmarkAllReport"
    [] d = "ElectricBenchmarkAllReport" /\ m = "back_to_selections"
         -> "ElectricBenchmarkAllScheduleDropdown"

ReturnClass(d, m) ==
  CASE d = "LoginState" /\ m = "login" -> "PortalState"
    [] d = "PortalState" /\ m = "electric" -> "ElectricState"
    [] d = "ElectricState" /\ m = "benchmark" -> "ElectricBenchmarkStateDropdown"
    [] d = "ElectricState" /\ m = "benchmark_all" -> "ElectricBenchmarkAllStateDropdown"
    [] d = "ElectricBenchmarkStateDropdown" /\ m = "select_state"
         -> "ElectricBenchmarkUtilityDropdown"
    [] d = "ElectricBenchmarkUtilityDropdown" /\ m = "select_utility"
         -> "ElectricBenchmarkScheduleDropdown"
    [] d = "ElectricBenchmarkScheduleDropdown" /\ m = "select_schedule"
         -> "ElectricBenchmarkReport"
    [] d = "ElectricBenchmarkReport" /\ m = "back_to_selections"
         -> "ElectricBenchmarkScheduleDropdown"
    [] d = "ElectricBenchmarkAllStateDropdown" /\ m = "select_state"
         -> "ElectricBenchmarkAllUtilityDropdown"
    [] d = "ElectricBenchmarkAllUtilityDropdown" /\ m = "select_utility"
         -> "ElectricBenchmarkAllScheduleDropdown"
    [] d = "ElectricBenchmarkAllScheduleDropdown" /\ m = "select_schedule"
         -> "ElectricBenchmarkAllReport"
    [] d = "ElectricBenchmarkAllReport" /\ m = "back_to_selections"
         -> "ElectricBenchmarkAllScheduleDropdown"

\* The methods that return a state object.
TransitionMethods == {"login", "electric", "benchmark", "benchmark_all", "select_state",
                      "select_utility", "select_schedule", "back_to_selections"}

\* ------------------------------------------------------------------------
\* The portal as the driver sees it: the page shown, whether the session is
\* authenticated, the report radio button that is selected, the three
\* dropdowns of the selections page and the schedule whose report is shown.
\* ------------------------------------------------------------------------
DropdownIds == {"StateSelect", "UtilitySelect", "ScheduleSelect"}

\* The option lists the portal serves: none; two entries; a placeholder
\* followed by three entries, one of them with trailing whitespace.
PortalOptionLists == { <<>>,
                       << <<"A">>, <<"A", "A">> >>,
                       << <<>>, <<"A", " ">>, <<"A", "A">>, <<"A", " ", "A">> >> }

EmptyDD == [opts |-> <<>>, sel |-> 0]

\* A dropdown as a page load fills it: the browser shows the first option.
FreshDD == {[opts |-> o, sel |-> IF o = <<>> THEN 0 ELSE 1] : o \in PortalOptionLists}

NoReport == <<"none">>

NewDom == [page |-> "blank", authed |-> FALSE, radio |-> "none",
           dd |-> [id \in DropdownIds |-> EmptyDD], report |-> NoReport]

\* The dropdown with the given element id as _dropdown finds it: it is in the
\* DOM on the selections page only.
DD(dom, id) == [present |-> dom.page = "entry",
                opts |-> dom.dd[id].opts, sel |-> dom.dd[id].sel]

Outcome(err, dom, clicks) == [err |-> err, dom |-> dom, clicks |-> clicks]

ErrorPage(dom) == [dom EXCEPT !.page = "error"]

\* base.py:137-143: login.  The login page loads or not; without its fields
\* the first bounded wait raises; the submitted credentials are accepted or
\* rejected by the portal.
LoginOutcomes(dom) ==
  { Outcome("TimeoutException", ErrorPage(dom), 0),
    Outcome("none", [dom EXCEPT !.page = "portal", !.authed = TRUE], 1),
    Outcome("none", [dom EXCEPT !.page = "login", !.authed = FALSE], 1) }

\* state.py:83-87: PortalState.electric, a driver.get with no wait.  An
\* unauthenticated session is sent back to the login page.
ElectricOutcomes(dom) ==
  IF ~dom.authed
    THEN { Outcome("none", [dom EXCEPT !.page = "login"], 0) }
    ELSE { Outcome("none", ErrorPage(dom), 0) } \cup
         { Outcome("none", [dom EXCEPT !.page = "entry", !.radio = r, !.report = NoReport,
                                       !.dd = [id \in DropdownIds |->
                                                 IF id = "StateSelect" THEN d ELSE EmptyDD]], 0) :
             r \in {"none", "benchmark", "benchall"}, d \in FreshDD }

\* state.py:91-97: SelectReportState._select_report.
RadioClickAlways(dom, report) == TRUE

RadioClick(dom, report) == dom.radio # report

SelectReportOutcomes(dom, report) ==
  IF dom.page # "entry"
    THEN { Outcome("TimeoutException", dom, 0) }
  ELSE IF ~RadioClick(dom, report)
    THEN { Outcome("none", dom, 0) }
  ELSE { Outcome("none", ErrorPage(dom), 1) } \cup
       { Outcome("none", [dom EXCEPT !.radio = report,
                                     !.dd = [id \in DropdownIds |->
                                               IF id = "StateSelect" THEN d ELSE EmptyDD]], 1) :
           d \in FreshDD }

\* What the portal shows after select_by_visible_text changed dropdown id: the
\* dropdowns after it are filled again, a schedule opens its report.
AfterSelect(dom, id) ==
  { ErrorPage(dom) } \cup
  CASE id = "StateSelect" ->
         { [dom EXCEPT !.dd["UtilitySelect"] = d, !.dd["ScheduleSelect"] = EmptyDD] :
             d \in FreshDD }
    [] id = "UtilitySelect" ->
         { [dom EXCEPT !.dd["ScheduleSelect"] = d] : d \in FreshDD }
    [] id = "ScheduleSelect" ->
         { [dom EXCEPT !.page = "report",
                       !.report = dom.dd[id].opts[dom.dd[id].sel]] }

\* state.py:123-143 on the dropdown self.element_id names.
SelectOutcomes(dom, id, choice) ==
  LET r == DoSelect(DD(dom, id), choice)
      picked == [dom EXCEPT !.dd[id] = [opts |-> r.dd.opts, sel |-> r.dd.sel]]
  IN  IF r.err # "none" THEN { Outcome(r.err, dom, 0) }
      ELSE IF r.selectCalls = 0 THEN { Outcome("none", dom, 0) }
      ELSE { Outcome("none", d, 1) : d \in AfterSelect(picked, id) }

\* state.py:119-121 behind get_states / get_utilities / get_schedules.
VisibleOptionsOutcome(dom, id) ==
  IF DD(dom, id).present THEN [err |-> "none", options |-> VisibleOptions(DD(dom, id))]
  ELSE [err |-> "TimeoutException", options |-> <<>>]

\* state.py:214-216: ReportState._back_to_selections.
BackToSelectionsTwice(dom) ==
  IF dom.page # "report"
    THEN { Outcome("TimeoutException", dom, 0) }
    ELSE { Outcome("none", [dom EXCEPT !.page = "entry"], 2) }

BackToSelectionsOutcomes(dom) ==
  IF dom.page # "report"
    THEN { Outcome("TimeoutException", dom, 0) }
    ELSE { Outcome("none", [dom EXCEPT !.page = "entry"], 1),
           Outcome("none", ErrorPage(dom), 1) }

\* ------------------------------------------------------------------------
\* Variables
\* ------------------------------------------------------------------------
VARIABLES
  s_pc, s_dd, s_choice, s_res,      \* one call of _select on one dropdown
  dom,                              \* the portal as the session's driver sees it
  cur, lastCall, prog,              \* the state object a caller holds, its last call
  \* process_rateacuity: its position, tenacity's attempt number, its locals
  pc, attempt, state_arg, selected_utility, tariffs_to_include, results,
  scraping_state, utilities, tariffs, tariff, exc, raised, written,
  \* the session scope of create_context
  ctx, tempdir, browsers,
  \* history: sessions opened, calls of login, how each attempt ended, prompts
  \* shown, the operator's schedule answer, the scope's exit paths, the fetch log
  sessions, logins, attemptErrs, utilPrompts, schedPrompts, operatorSchedules,
  exitPaths, log

\* ReportState.as_dataframe: its position, the session's download directory,
\* whether the page shows the spreadsheet link, the timeout argument, the
\* locals of download_excel, what the call raised, the sheet that was read
\* and the dataframe returned; history: the directory when the session's
\* first call began,
\* the files the browser wrote since the click, the sleeps of the polling loop
VARIABLES
  df_pc, download_dir, link_present, timeout, initial_state, dl_n, filepath, df_err,
  raw_data, df, dir_before, chrome_wrote, sleeps

dfVars == <<df_pc, download_dir, link_present, timeout, initial_state, dl_n, filepath,
            df_err, raw_data, df, dir_before, chrome_wrote, sleeps>>
\* sections_to_json: its position, the elements find_elements returned and
\* the list it returns
VARIABLES sec_pc, seq, sections

secVars == <<sec_pc, seq, sections>>

\* tariffs_paginate and iter_utility_rates: the generator's position, the
\* records the API holds, the start / iter_offset argument, the page_count
\* argument, the API's own page limit, the locals offset and rows, the items of
\* the page not yet yielded, what was yielded, and the requests made
VARIABLES pg_pc, records, start, page_count, limit, offset, n_rows, pg_page, yielded, requests

pgVars == <<pg_pc, records, start, page_count, limit, offset, n_rows, pg_page, yielded,
            requests>>

\* cli.main: its position, the selected providers, the status each REST API
\* answers with, the providers whose process function was called, the
\* credentials named in "Authorization failed" reports, the exception main
\* ended with, the environment variables that are set, and the network and
\* browser activity of the run in its order
VARIABLES main_pc, providers_, api_status, processed, auth_reports, main_raised, env, io

mainVars == <<main_pc, providers_, api_status, processed, auth_reports, main_raised, env, io>>

\* prompt_filename: its position, the output folder (whether it exists and the
\* names in it), the arguments, the default path shown to the operator, the
\* paths the prompt refused, and the path returned
VARIABLES fn_pc, output_folder, suggested_filename, extension, fn_filepath, fn_rejected,
          fn_result

fnVars == <<fn_pc, output_folder, suggested_filename, extension, fn_filepath, fn_rejected,
            fn_result>>

extVars == <<dfVars, secVars, pgVars, mainVars, fnVars>>

selVars == <<s_pc, s_dd, s_choice, s_res>>
navVars == <<cur, lastCall, prog>>
runVars == <<pc, attempt, state_arg, selected_utility, tariffs_to_include, results,
             scraping_state, utilities, tariffs, tariff, exc, raised, written>>
ctxVars == <<ctx, tempdir, browsers>>
histVars == <<sessions, logins, attemptErrs, utilPrompts, schedPrompts, operatorSchedules,
              exitPaths, log>>
vars == <<selVars, dom, navVars, runVars, ctxVars, histVars, extVars>>

\* Optional values: None is the empty tuple, a value v is <<v>>.
None == <<>>
Some(v) == <<v>>

NoResult == SelectResult("none", NoText, <<>>, 0, [present |-> FALSE, opts |-> <<>>, sel |-> 0])
NoCall == [op |-> "none", on |-> "none", impl |-> "none", id |-> "", ret |-> "none",
           err |-> "none", clicks |-> 0]

SelIdle == /\ s_pc = "idle"
           /\ s_dd = [present |-> FALSE, opts |-> <<>>, sel |-> 0]
           /\ s_choice = NoText
           /\ s_res = NoResult

NavIdle == /\ cur = "none"
           /\ lastCall = NoCall
           /\ prog = 0

RunIdle == /\ pc = "idle"
           /\ attempt = 0
           /\ state_arg = NoText
           /\ selected_utility = None
           /\ tariffs_to_include = None
           /\ results = <<>>
           /\ scraping_state = "none"
           /\ utilities = <<>>
           /\ tariffs = <<>>
           /\ tariff = NoText
           /\ exc = "none"
           /\ raised = "none"
           /\ written = None
           /\ ctx = "closed"
           /\ tempdir = FALSE
           /\ browsers = 0
           /\ sessions = 0
           /\ logins = 0
           /\ attemptErrs = <<>>
           /\ utilPrompts = 0
           /\ schedPrompts = 0
           /\ operatorSchedules = None
           /\ exitPaths = {}
           /\ log = <<>>

DfIdle == /\ df_pc = "idle"
          /\ download_dir = {}
          /\ link_present = FALSE
          /\ timeout = 0
          /\ initial_state = {}
          /\ dl_n = 0
          /\ filepath = None
          /\ df_err = "none"
          /\ raw_data = <<>>
          /\ df = None
          /\ dir_before = {}
          /\ chrome_wrote = {}
          /\ sleeps = 0

SecIdle == /\ sec_pc = "idle"
           /\ seq = <<>>
           /\ sections = <<>>

PgIdle == /\ pg_pc = "idle"
          /\ records = <<>>
          /\ start = 0
          /\ page_count = 0
          /\ limit = 0
          /\ offset = 0
          /\ n_rows = 0
          /\ pg_page = <<>>
          /\ yielded = <<>>
          /\ requests = <<>>

MainIdle == /\ main_pc = "idle"
            /\ providers_ = {}
            /\ api_status = <<>>
            /\ processed = <<>>
            /\ auth_reports = <<>>
            /\ main_raised = "none"
            /\ env = {}
            /\ io = <<>>

FnIdle == /\ fn_pc = "idle"
          /\ output_folder = [exists |-> FALSE, entries |-> {}]
          /\ suggested_filename = <<>>
          /\ extension = ""
          /\ fn_filepath = None
          /\ fn_rejected = {}
          /\ fn_result = None

ExtIdle == DfIdle /\ SecIdle /\ PgIdle /\ MainIdle /\ FnIdle

coreVars == <<selVars, dom, navVars, runVars, ctxVars, histVars>>
CoreIdle == SelIdle /\ NavIdle /\ RunIdle /\ dom = NewDom

\* What each of the later specifications leaves alone, and its idle value.
otherThanDf == <<coreVars, secVars, pgVars, mainVars, fnVars>>
IdleButDf == CoreIdle /\ SecIdle /\ PgIdle /\ MainIdle /\ FnIdle

otherThanSec == <<coreVars, dfVars, pgVars, mainVars, fnVars>>
IdleButSec == CoreIdle /\ DfIdle /\ PgIdle /\ MainIdle /\ FnIdle

otherThanPg == <<coreVars, dfVars, secVars, mainVars, fnVars>>
IdleButPg == CoreIdle /\ DfIdle /\ SecIdle /\ MainIdle /\ FnIdle

otherThanMain == <<coreVars, dfVars, secVars, pgVars, fnVars>>
IdleButMain == CoreIdle /\ DfIdle /\ SecIdle /\ PgIdle /\ FnIdle

otherThanFn == <<coreVars, dfVars, secVars, pgVars, mainVars>>
IdleButFn == CoreIdle /\ DfIdle /\ SecIdle /\ PgIdle /\ MainIdle

otherThanSelect == <<dom, navVars, runVars, ctxVars, histVars, extVars>>
otherThanNav == <<selVars, runVars, ctxVars, histVars, extVars>>

\* ------------------------------------------------------------------------
\* SpecSelect: _select applied to every dropdown and choice within the bounds
\* ------------------------------------------------------------------------
InitSelect == /\ s_pc = "ready"
              /\ s_dd \in {d \in Dropdowns : DropdownOK(d)}
              /\ s_choice \in Str
              /\ s_res = NoResult
              /\ dom = NewDom
              /\ NavIdle
              /\ RunIdle
              /\ ExtIdle

\* state.py:123-143
CallSelect == /\ s_pc = "ready"
              /\ s_res' = DoSelect(s_dd, s_choice)
              /\ s_pc' = "done"
              /\ UNCHANGED <<s_dd, s_choice>>
              /\ UNCHANGED otherThanSelect

NextSelect == CallSelect

SpecSelect == InitSelect /\ [][NextSelect]_vars

\* ------------------------------------------------------------------------
\* SpecNav: a caller that starts from LoginState(context) and calls, in any
\* order, any method of the state object it holds, keeping the one returned
\* ------------------------------------------------------------------------
NavChoices == { <<"A">>, <<"A", "A">>, <<"A", " ", "A">>, <<"B">> }

\* The calls a Report state is reached through, in order.
Required == << {"login"}, {"electric"}, {"benchmark", "benchmark_all"},
               {"select_state"}, {"select_utility"}, {"select_schedule"} >>

Advance(p, m) == IF p < Len(Required) /\ m \in Required[p + 1] THEN p + 1 ELSE p

\* Method m called on the held object of class c, with the outcome o of its
\* DOM work: a state object is returned unless it raised.
Invoke(c, m, o) ==
  LET d == DefiningClass(c, m)
      ok == o.err = "none"
  IN  /\ dom' = o.dom
      /\ cur' = IF ok THEN ReturnClass(d, m) ELSE cur
      /\ prog' = IF ok THEN Advance(prog, m) ELSE prog
      /\ lastCall' = [op |-> m, on |-> c, impl |-> d, id |-> ElementId(c),
                      ret |-> IF ok THEN ReturnClass(d, m) ELSE "none",
                      err |-> o.err, clicks |-> o.clicks]
      /\ UNCHANGED otherThanNav

InitNav == /\ SelIdle
           /\ dom = NewDom
           /\ cur = "LoginState"
           /\ lastCall = NoCall
           /\ prog = 0
           /\ RunIdle
           /\ ExtIdle

\* state.py:76-79
NavLogin == \E c \in {cur} : /\ "login" \in Methods(c)
                            /\ \E o \in LoginOutcomes(dom) : Invoke(c, "login", o)

\* state.py:83-87
NavElectric == \E c \in {cur} : /\ "electric" \in Methods(c)
                               /\ \E o \in ElectricOutcomes(dom) : Invoke(c, "electric", o)

\* state.py:101-104
NavBenchmark ==
  \E c \in {cur} : /\ "benchmark" \in Methods(c)
                  /\ \E o \in SelectReportOutcomes(dom, "benchmark") : Invoke(c, "benchmark", o)

\* state.py:106-108
NavBenchmarkAll ==
  \E c \in {cur} : /\ "benchmark_all" \in Methods(c)
                  /\ \E o \in SelectReportOutcomes(dom, "benchall") : Invoke(c, "benchmark_all", o)

\* state.py:152-153, 184-186
NavSelectState ==
  \E c \in {cur}, ch \in NavChoices :
    /\ "select_state" \in Methods(c)
    /\ \E o \in SelectOutcomes(dom, ElementId(c), ch) : Invoke(c, "select_state", o)

\* state.py:162-163, 196-198
NavSelectUtility ==
  \E c \in {cur}, ch \in NavChoices :
    /\ "select_utility" \in Methods(c)
    /\ \E o \in SelectOutcomes(dom, ElementId(c), ch) : Invoke(c, "select_utility", o)

\* state.py:172-174, 208-210
NavSelectSchedule ==
  \E c \in {cur}, ch \in NavChoices :
    /\ "select_schedule" \in Methods(c)
    /\ \E o \in SelectOutcomes(dom, ElementId(c), ch) : Invoke(c, "select_schedule", o)

\* state.py:254-256, 260-262
NavBackToSelections ==
  \E c \in {cur} : /\ "back_to_selections" \in Methods(c)
                  /\ \E o \in BackToSelectionsOutcomes(dom) : Invoke(c, "back_to_selections", o)

NextNav == \/ NavLogin
           \/ NavElectric
           \/ NavBenchmark
           \/ NavBenchmarkAll
           \/ NavSelectState
           \/ NavSelectUtility
           \/ NavSelectSchedule
           \/ NavBackToSelections

SpecNav == InitNav /\ [][NextNav]_vars

\* ------------------------------------------------------------------------
\* Spec: process_rateacuity.  One action per statement that talks to the
\* browser, the operator or the file system; the tests between them belong
\* to the step they follow.
\* ------------------------------------------------------------------------
\* _cli/rateacuity.py:99: stop_after_attempt(3)
MaxAttempts == 3

\* The state codes the command line passes (lower-case values of StateCode).
StateArgs == { <<"a">>, <<"b">> }

\* str.upper()
UpperChar(c) == CASE c = "a" -> "A" [] c = "b" -> "B" [] OTHER -> c

Upper(s) == [i \in 1..Len(s) |-> UpperChar(s[i])]

\* [_ for _ in options if _]
RECURSIVE NonEmpty(_)
NonEmpty(l) == IF l = <<>> THEN <<>>
               ELSE IF Head(l) = <<>> THEN NonEmpty(Tail(l))
               ELSE <<Head(l)>> \o NonEmpty(Tail(l))

\* list.pop(i): the list without its i-th element.
RemoveAt(l, i) == SubSeq(l, 1, i - 1) \o SubSeq(l, i + 1, Len(l))

\* The answers of a checkbox prompt: the chosen entries in the order shown.
RECURSIVE SubLists(_)
SubLists(l) == IF l = <<>> THEN { <<>> }
               ELSE LET rest == SubLists(Tail(l))
                    IN  rest \cup { <<Head(l)>> \o r : r \in rest }

\* selenium: TimeoutException is a WebDriverException.
IsWebDriverException(e) == e \in {"WebDriverException", "TimeoutException"}

\* _cli/rateacuity.py:99: retry_if_exception_type(WebDriverException)
RetryIfAnyException(e) == e # "none"

RetryIf(e) == IsWebDriverException(e)

\* _cli/rateacuity.py:99: stop_after_attempt(3)
StopNever(n) == FALSE

StopNow(n) == n >= MaxAttempts

\* tenacity's step after an attempt ended with exception e ("none": it
\* completed): leave the loop, start the next attempt, re-raise e, or raise
\* RetryError once the stop condition holds.
RetryDecision(e, n) ==
  IF e = "none" THEN "done"
  ELSE IF ~RetryIf(e) THEN "reraise"
  ELSE IF StopNow(n) THEN "retry_error"
  ELSE "retry"

\* base.py:26: the TemporaryDirectory block removes the directory on every way
\* out of it.
TempDirLeakedOnError(path) == path \in {"exception", "launch_failed"}

TempDirAfterExit(path) == FALSE

\* _cli/rateacuity.py:111 and 129: a prompt is shown only while its answer is None.
AskAlways(answer) == TRUE

AskNeeded(answer) == answer = None

\* _cli/rateacuity.py:145: tariffs_to_include.pop(0)
PopLast(l) == Len(l)

PopIndex(l) == 1

InitRun == /\ SelIdle
           /\ NavIdle
           /\ ExtIdle
           /\ dom = NewDom
           /\ pc = "start"
           /\ attempt = 0
           /\ state_arg \in StateArgs
           /\ selected_utility = None
           /\ tariffs_to_include = None
           /\ results = <<>>
           /\ scraping_state = "none"
           /\ utilities = <<>>
           /\ tariffs = <<>>
           /\ tariff = NoText
           /\ exc = "none"
           /\ raised = "none"
           /\ written = None
           /\ ctx = "closed"
           /\ tempdir = FALSE
           /\ browsers = 0
           /\ sessions = 0
           /\ logins = 0
           /\ attemptErrs = <<>>
           /\ utilPrompts = 0
           /\ schedPrompts = 0
           /\ operatorSchedules = None
           /\ exitPaths = {}
           /\ log = <<>>

idleInRun == <<selVars, navVars, extVars>>

\* _cli/rateacuity.py:94-98: the locals are set and tenacity hands out the first attempt.
Start ==
  /\ pc = "start"
  /\ attempt' = 1
  /\ pc' = "enter_ctx"
  /\ UNCHANGED <<idleInRun, dom, state_arg, selected_utility, tariffs_to_include, results,
                 scraping_state, utilities, tariffs, tariff, exc, raised, written,
                 ctxVars, histVars>>

\* base.py:24-26: create_context opens its TemporaryDirectory.
EnterContext ==
  /\ pc = "enter_ctx"
  /\ ctx' = "starting"
  /\ tempdir' = TRUE
  /\ sessions' = sessions + 1
  /\ pc' = "launch"
  /\ UNCHANGED <<idleInRun, dom, attempt, state_arg, selected_utility, tariffs_to_include,
                 results, scraping_state, utilities, tariffs, tariff, exc, raised, written,
                 browsers, logins, attemptErrs, utilPrompts, schedPrompts,
                 operatorSchedules, exitPaths, log>>

\* base.py:27, 30-47: create_driver_ launches Chrome, or fails inside the
\* TemporaryDirectory block; LoginState(context) (_cli/rateacuity.py:104).
LaunchDriver ==
  /\ pc = "launch"
  /\ \E launched \in BOOLEAN :
       IF launched
         THEN /\ browsers' = browsers + 1
              /\ dom' = NewDom
              /\ ctx' = "open"
              /\ scraping_state' = "LoginState"
              /\ pc' = "login"
              /\ UNCHANGED <<tempdir, exc, exitPaths>>
         ELSE /\ exc' = "WebDriverException"
              /\ tempdir' = TempDirAfterExit("launch_failed")
              /\ ctx' = "closed"
              /\ exitPaths' = exitPaths \cup {"launch_failed"}
              /\ pc' = "attempt_end"
              /\ UNCHANGED <<browsers, dom, scraping_state>>
  /\ UNCHANGED <<idleInRun, attempt, state_arg, selected_utility, tariffs_to_include,
                 results, utilities, tariffs, tariff, raised, written,
                 sessions, logins, attemptErrs, utilPrompts, schedPrompts, operatorSchedules, log>>

\* A transition method called on scraping_state with outcome o: the returned
\* state is kept and the next statement follows, or the exception leaves the
\* with block.
Transition(m, o, next) ==
  /\ dom' = o.dom
  /\ IF o.err = "none"
       THEN /\ scraping_state' = ReturnClass(DefiningClass(scraping_state, m), m)
            /\ pc' = next
            /\ exc' = exc
       ELSE /\ scraping_state' = scraping_state
            /\ pc' = "exit_ctx_exc"
            /\ exc' = o.err

frameOfTransition == <<idleInRun, attempt, state_arg, selected_utility, tariffs_to_include,
                       results, utilities, tariffs, tariff, raised, written, ctxVars>>

\* _cli/rateacuity.py:104: .login(username, password)
RunLogin ==
  /\ pc = "login"
  /\ "login" \in Methods(scraping_state)
  /\ \E o \in LoginOutcomes(dom) : Transition("login", o, "electric")
  /\ logins' = logins + 1
  /\ UNCHANGED <<frameOfTransition, sessions, attemptErrs, utilPrompts, schedPrompts,
                 operatorSchedules, exitPaths, log>>

\* _cli/rateacuity.py:104: .electric()
RunElectric ==
  /\ pc = "electric"
  /\ "electric" \in Methods(scraping_state)
  /\ \E o \in ElectricOutcomes(dom) : Transition("electric", o, "benchmark_all")
  /\ UNCHANGED <<frameOfTransition, histVars>>

\* _cli/rateacuity.py:104: .benchmark_all()
RunBenchmarkAll ==
  /\ pc = "benchmark_all"
  /\ "benchmark_all" \in Methods(scraping_state)
  /\ \E o \in SelectReportOutcomes(dom, "benchall") :
       Transition("benchmark_all", o, "select_state")
  /\ UNCHANGED <<frameOfTransition, histVars>>

\* _cli/rateacuity.py:104: .select_state(state.upper())
RunSelectState ==
  /\ pc = "select_state"
  /\ "select_state" \in Methods(scraping_state)
  /\ \E o \in SelectOutcomes(dom, ElementId(scraping_state), Upper(state_arg)) :
       Transition("select_state", o, "get_utilities")
  /\ UNCHANGED <<frameOfTransition, histVars>>

\* _cli/rateacuity.py:106-111: get_utilities, the test for no utilities and
\* the test whether the operator is to be asked.
RunGetUtilities ==
  /\ pc = "get_utilities"
  /\ "get_utilities" \in Methods(scraping_state)
  /\ LET r == VisibleOptionsOutcome(dom, ElementId(scraping_state))
         found == NonEmpty(r.options)
     IN  IF r.err # "none"
           THEN /\ exc' = r.err
                /\ pc' = "exit_ctx_exc"
                /\ UNCHANGED utilities
         ELSE IF found = <<>>
           THEN /\ exc' = "RuntimeError"
                /\ pc' = "exit_ctx_exc"
                /\ utilities' = found
         ELSE /\ utilities' = found
              /\ pc' = IF AskNeeded(selected_utility) THEN "prompt_utility" ELSE "select_utility"
              /\ UNCHANGED exc
  /\ UNCHANGED <<idleInRun, dom, attempt, state_arg, selected_utility, tariffs_to_include,
                 results, scraping_state, tariffs, tariff, raised, written,
                 ctxVars, histVars>>

\* _cli/rateacuity.py:112-123: the best-scored utility is offered; if the
\* operator declines it, one of the others is asked for, and ask() gives None
\* when the operator cancels.  "cancelled" is printed and the function goes on.
RunPromptUtility ==
  /\ pc = "prompt_utility"
  /\ utilPrompts' = utilPrompts + 1
  /\ \E best \in 1..Len(utilities), confirmed \in BOOLEAN :
       LET utilities_scored == RemoveAt(utilities, best)
       IN  IF confirmed
             THEN selected_utility' = Some(utilities[best])
             ELSE \E answer \in {None} \cup {Some(utilities_scored[i]) :
                                               i \in 1..Len(utilities_scored)} :
                    selected_utility' = answer
  /\ pc' = "select_utility"
  /\ UNCHANGED <<idleInRun, dom, attempt, state_arg, tariffs_to_include, results,
                 scraping_state, utilities, tariffs, tariff, exc, raised, written,
                 ctxVars, sessions, logins, attemptErrs, schedPrompts, operatorSchedules,
                 exitPaths, log>>

\* _cli/rateacuity.py:126: select_utility(selected_utility).  With None,
\* _select reads the options and then fails on choice.strip().
RunSelectUtility ==
  /\ pc = "select_utility"
  /\ "select_utility" \in Methods(scraping_state)
  /\ IF selected_utility = None
       THEN /\ exc' = IF DD(dom, ElementId(scraping_state)).present
                        THEN "AttributeError" ELSE "TimeoutException"
            /\ pc' = "exit_ctx_exc"
            /\ UNCHANGED <<dom, scraping_state>>
       ELSE \E o \in SelectOutcomes(dom, ElementId(scraping_state), selected_utility[1]) :
              Transition("select_utility", o, "get_schedules")
  /\ UNCHANGED <<frameOfTransition, histVars>>

\* _cli/rateacuity.py:127-141: get_schedules, then either the prompt or, with
\* an answer already there, the test for an empty list.
RunGetSchedules ==
  /\ pc = "get_schedules"
  /\ "get_schedules" \in Methods(scraping_state)
  /\ LET r == VisibleOptionsOutcome(dom, ElementId(scraping_state))
     IN  IF r.err # "none"
           THEN /\ exc' = r.err
                /\ pc' = "exit_ctx_exc"
                /\ UNCHANGED tariffs
           ELSE /\ tariffs' = NonEmpty(r.options)
                /\ pc' = IF AskNeeded(tariffs_to_include) THEN "prompt_tariffs"
                         ELSE IF tariffs_to_include[1] = <<>> THEN "exit_ctx_return"
                         ELSE "select_schedule"
                /\ UNCHANGED exc
  /\ UNCHANGED <<idleInRun, dom, attempt, state_arg, selected_utility, tariffs_to_include,
                 results, scraping_state, utilities, tariff, raised, written,
                 ctxVars, histVars>>

\* _cli/rateacuity.py:130-141: the checkbox accepts only a non-empty answer;
\* ask() gives None when the operator cancels, and the function returns.
RunPromptTariffs ==
  /\ pc = "prompt_tariffs"
  /\ schedPrompts' = schedPrompts + 1
  /\ \E answer \in {None} \cup {Some(l) : l \in SubLists(tariffs) \ { <<>> }} :
       /\ tariffs_to_include' = answer
       /\ operatorSchedules' = answer
       /\ pc' = IF answer = None THEN "exit_ctx_return" ELSE "select_schedule"
  /\ UNCHANGED <<idleInRun, dom, attempt, state_arg, selected_utility, results,
                 scraping_state, utilities, tariffs, tariff, exc, raised, written,
                 ctxVars, sessions, logins, attemptErrs, utilPrompts, exitPaths, log>>

\* _cli/rateacuity.py:145-147: the next tariff is taken from the list and
\* select_schedule is called with it.
RunSelectSchedule ==
  /\ pc = "select_schedule"
  /\ "select_schedule" \in Methods(scraping_state)
  /\ LET list == tariffs_to_include[1]
         i == PopIndex(list)
     IN  /\ tariff' = list[i]
         /\ tariffs_to_include' = Some(RemoveAt(list, i))
         /\ \E o \in SelectOutcomes(dom, ElementId(scraping_state), list[i]) :
              /\ Transition("select_schedule", o, "as_sections")
              /\ log' = Append(log, [ev |-> "select", schedule |-> list[i],
                                     ok |-> o.err = "none"])
  /\ UNCHANGED <<idleInRun, attempt, state_arg, selected_utility, results, utilities,
                 tariffs, raised, written, ctxVars, sessions, logins, attemptErrs, utilPrompts,
                 schedPrompts, operatorSchedules, exitPaths>>

\* _cli/rateacuity.py:148-149: as_sections reads what the page shows, without
\* a wait, and the record is appended.
RunAsSections ==
  /\ pc = "as_sections"
  /\ "as_sections" \in Methods(scraping_state)
  /\ results' = Append(results, [schedule |-> tariff, page |-> dom.page,
                                 report |-> dom.report])
  /\ log' = Append(log, [ev |-> "append", schedule |-> tariff, ok |-> TRUE])
  /\ pc' = "back_to_selections"
  /\ UNCHANGED <<idleInRun, dom, attempt, state_arg, selected_utility, tariffs_to_include,
                 scraping_state, utilities, tariffs, tariff, exc, raised, written,
                 ctxVars, sessions, logins, attemptErrs, utilPrompts, schedPrompts,
                 operatorSchedules, exitPaths>>

\* _cli/rateacuity.py:150 and the loop test of line 144.
RunBackToSelections ==
  /\ pc = "back_to_selections"
  /\ "back_to_selections" \in Methods(scraping_state)
  /\ \E o \in BackToSelectionsOutcomes(dom) :
       Transition("back_to_selections", o,
                  IF tariffs_to_include[1] # <<>> THEN "select_schedule"
                  ELSE "exit_ctx_normal")
  /\ UNCHANGED <<frameOfTransition, histVars>>

ExitPath == CASE pc = "exit_ctx_normal" -> "normal"
              [] pc = "exit_ctx_return" -> "return"
              [] pc = "exit_ctx_exc" -> "exception"

\* base.py:24-27: the with block of create_context is left, by its end, by the
\* return of line 141 or by an exception; the driver is not touched.
ExitContext ==
  /\ pc \in {"exit_ctx_normal", "exit_ctx_return", "exit_ctx_exc"}
  /\ tempdir' = TempDirAfterExit(ExitPath)
  /\ ctx' = "closed"
  /\ exitPaths' = exitPaths \cup {ExitPath}
  /\ pc' = IF pc = "exit_ctx_return" THEN "returned" ELSE "attempt_end"
  /\ UNCHANGED <<idleInRun, dom, attempt, state_arg, selected_utility, tariffs_to_include,
                 results, scraping_state, utilities, tariffs, tariff, exc, raised, written,
                 browsers, sessions, logins, attemptErrs, utilPrompts, schedPrompts,
                 operatorSchedules, log>>

\* _cli/rateacuity.py:98-101: the attempt manager hands the attempt's end to
\* tenacity, which ends the loop, starts another attempt or raises.
AttemptEnd ==
  /\ pc = "attempt_end"
  /\ attemptErrs' = Append(attemptErrs, exc)
  /\ LET decision == RetryDecision(exc, attempt)
     IN  /\ pc' = CASE decision = "done" -> "write"
                    [] decision = "retry" -> "enter_ctx"
                    [] OTHER -> "raised"
         /\ attempt' = IF decision = "retry" THEN attempt + 1 ELSE attempt
         /\ raised' = CASE decision = "reraise" -> exc
                        [] decision = "retry_error" -> "RetryError"
                        [] OTHER -> raised
         /\ exc' = "none"
  /\ UNCHANGED <<idleInRun, dom, state_arg, selected_utility, tariffs_to_include, results,
                 scraping_state, utilities, tariffs, tariff, written, ctxVars,
                 sessions, logins, utilPrompts, schedPrompts, operatorSchedules,
                 exitPaths, log>>

\* _cli/rateacuity.py:152-156: the results are written to the file the
\* operator confirms.
WriteResults ==
  /\ pc = "write"
  /\ IF selected_utility = None
       THEN raised' = "AssertionError" /\ pc' = "raised" /\ UNCHANGED written
       ELSE written' = Some(results) /\ pc' = "returned" /\ UNCHANGED raised
  /\ UNCHANGED <<idleInRun, dom, attempt, state_arg, selected_utility, tariffs_to_include,
                 results, scraping_state, utilities, tariffs, tariff, exc,
                 ctxVars, histVars>>

Next == \/ Start
        \/ EnterContext
        \/ LaunchDriver
        \/ RunLogin
        \/ RunElectric
        \/ RunBenchmarkAll
        \/ RunSelectState
        \/ RunGetUtilities
        \/ RunPromptUtility
        \/ RunSelectUtility
        \/ RunGetSchedules
        \/ RunPromptTariffs
        \/ RunSelectSchedule
        \/ RunAsSections
        \/ RunBackToSelections
        \/ ExitContext
        \/ AttemptEnd
        \/ WriteResults

Spec == InitRun /\ [][Next]_vars

\* ------------------------------------------------------------------------
\* Properties of the navigation state machine
\* ------------------------------------------------------------------------
ReportClasses == {"ElectricBenchmarkReport", "ElectricBenchmarkAllReport"}

\* The transitions the navigation diagram lists for the screen of class c.
DiagramOps(c) ==
  CASE c = "LoginState" -> {"login"}
    [] c = "PortalState" -> {"electric"}
    [] c = "ElectricState" -> {"benchmark", "benchmark_all"}
    [] c \in {"ElectricBenchmarkStateDropdown", "ElectricBenchmarkAllStateDropdown"}
         -> {"select_state"}
    [] c \in {"ElectricBenchmarkUtilityDropdown", "ElectricBenchmarkAllUtilityDropdown"}
         -> {"select_utility"}
    [] c \in {"ElectricBenchmarkScheduleDropdown", "ElectricBenchmarkAllScheduleDropdown"}
         -> {"select_schedule"}
    [] c \in ReportClasses -> {"back_to_selections"}
    [] OTHER -> {}

\* C1: every transition method that is called on a state object is one the
\* diagram lists for that object's screen (a Utility-dropdown state accepts
\* select_utility only, a Schedule-dropdown state select_schedule only, ...).
C1_OnlyDiagramTransitionsCallable ==
  lastCall.op \in TransitionMethods => lastCall.op \in DiagramOps(lastCall.on)

\* C2: a Report state is held only after login, electric, benchmark or
\* benchmark_all, select_state, select_utility and select_schedule have each
\* returned, in that relative order.
C2_ReportOnlyAfterFullChain ==
  cur \in ReportClasses => prog = Len(Required)

C2_Witness_ReportReached ==
  /\ cur \in ReportClasses
  /\ lastCall.op = "select_schedule"
  /\ dom.page = "report"

\* The choice is in the live options neither exactly nor after trimming.
Unmatched(opts, choice) ==
  /\ \A i \in 1..Len(opts) : opts[i] # choice
  /\ \A i \in 1..Len(opts) : Strip(opts[i]) # Strip(choice)

\* C3: for a choice that no live option matches, exactly or after trimming,
\* _select raises the invalid-choice error naming the requested value and the
\* available options, calls select_by_visible_text 0 times and leaves the
\* dropdown, its selected option included, as it was.
C3_InvalidChoiceRejected ==
  (s_pc = "done" /\ s_dd.present /\ Unmatched(s_dd.opts, s_choice)) =>
     /\ s_res.err = "ValueError"
     /\ s_res.requested = s_choice
     /\ \A i \in 1..Len(s_dd.opts) : InList(Strip(s_dd.opts[i]), s_res.available)
     /\ \A k \in 1..Len(s_res.available) : NormalizedHas(s_dd.opts, s_res.available[k])
     /\ s_res.selectCalls = 0
     /\ s_res.dd = s_dd

C3_Witness_InvalidChoice ==
  /\ s_pc = "done"
  /\ s_dd.present
  /\ Len(s_dd.opts) = 2
  /\ Unmatched(s_dd.opts, s_choice)
  /\ s_res.err = "ValueError"

\* The dropdown is in the DOM and has a selected option.
HasCurrent(dd) == dd.present /\ dd.opts # <<>>

SameTrimmed(dd, choice) == Strip(choice) = Strip(dd.opts[dd.sel])

\* C4 as stated: no selection action when the trimmed choice equals the trimmed
\* text of the selected option (and the next state is returned), exactly one
\* selection action whenever they differ.
C4_Original_OneSelectionWheneverDiffers ==
  (s_pc = "done" /\ HasCurrent(s_dd)) =>
     IF SameTrimmed(s_dd, s_choice)
       THEN s_res.selectCalls = 0 /\ s_res.err = "none"
       ELSE s_res.selectCalls = 1

\* C4 amended: when the trimmed choice equals the trimmed text of the selected
\* option, _select returns the next state with no selection action; when they
\* differ and _select returns, it has emitted exactly one; when it raises, none.
C4_SelectionActionIffDiffers ==
  (s_pc = "done" /\ HasCurrent(s_dd)) =>
     /\ SameTrimmed(s_dd, s_choice) => (s_res.selectCalls = 0 /\ s_res.err = "none")
     /\ (~SameTrimmed(s_dd, s_choice) /\ s_res.err = "none") => s_res.selectCalls = 1
     /\ s_res.err # "none" => s_res.selectCalls = 0

C4_Witness_SkippedSelection ==
  /\ s_pc = "done"
  /\ HasCurrent(s_dd)
  /\ SameTrimmed(s_dd, s_choice)
  /\ s_choice # s_dd.opts[s_dd.sel]
  /\ s_res.err = "none"
  /\ s_res.selectCalls = 0

\* ------------------------------------------------------------------------
\* Properties of process_rateacuity and of the session scope
\* ------------------------------------------------------------------------
\* The positions inside the with block after login was called.
AfterLogin == {"electric", "benchmark_all", "select_state", "get_utilities",
               "prompt_utility", "select_utility", "get_schedules", "prompt_tariffs",
               "select_schedule", "as_sections", "back_to_selections"}

RECURSIVE Schedules(_)
Schedules(rs) == IF rs = <<>> THEN <<>> ELSE <<Head(rs).schedule>> \o Schedules(Tail(rs))

\* C5: at most 3 attempts are made; an attempt is followed by another one only
\* if it raised a WebDriverException (a TimeoutException of a bounded wait or a
\* failed browser launch); every attempt opens a session of its own and calls
\* login on a LoginState with a logged-out browser; when the third attempt
\* raises a WebDriverException too the call raises and nothing is written.
C5_BoundedRetryOnDriverFailure ==
  /\ attempt <= 3 /\ sessions <= 3 /\ Len(attemptErrs) <= 3
  /\ \A k \in 1..Len(attemptErrs) : k < attempt => IsWebDriverException(attemptErrs[k])
  /\ pc \notin {"start", "enter_ctx"} => sessions = attempt
  /\ pc = "enter_ctx" => sessions = attempt - 1
  /\ pc = "login" => /\ scraping_state = "LoginState"
                     /\ dom = NewDom
                     /\ logins = browsers - 1
  /\ pc \in AfterLogin => logins = browsers
  /\ (Len(attemptErrs) = 3 /\ IsWebDriverException(attemptErrs[3])) =>
        (pc = "raised" /\ raised = "RetryError" /\ written = None)

C5_Witness_ThirdAttemptFails ==
  /\ pc = "raised"
  /\ raised = "RetryError"
  /\ attemptErrs = <<"WebDriverException", "TimeoutException", "TimeoutException">>
  /\ logins = 2

\* C6: an attempt that ends with an error other than a WebDriverException (the
\* ValueError of _select, the RuntimeError for zero utilities, ...) is the last
\* one: the call raises that very error, no later attempt and no later session
\* exists, and nothing is written.
C6_OtherErrorsPropagateAtOnce ==
  \A k \in 1..Len(attemptErrs) :
    (attemptErrs[k] # "none" /\ ~IsWebDriverException(attemptErrs[k])) =>
       /\ k = Len(attemptErrs)
       /\ attempt = k
       /\ sessions = k
       /\ pc = "raised"
       /\ raised = attemptErrs[k]
       /\ written = None

C6_Witness_ValueErrorInSecondAttempt ==
  /\ pc = "raised"
  /\ raised = "ValueError"
  /\ attempt = 2
  /\ IsWebDriverException(attemptErrs[1])

\* C7: once the utility prompt was answered with a utility it is never shown
\* again, and once the schedule prompt was answered with a list it is never
\* shown again, in this attempt or a later one.
C7_NoPromptAfterAnswer ==
  [][ /\ selected_utility # None => utilPrompts' = utilPrompts
      /\ tariffs_to_include # None => schedPrompts' = schedPrompts ]_vars

\* The second attempt, in a session of its own, has passed both prompts
\* without showing them: the first attempt fetched one schedule and failed
\* in select_schedule of the next.
C7_Witness_RetryPastPrompts ==
  /\ attempt = 2
  /\ sessions = 2
  /\ pc = "select_schedule"
  /\ Len(log) = 3 /\ log[1].ok /\ ~log[3].ok
  /\ selected_utility # None
  /\ tariffs_to_include # None
  /\ utilPrompts = 1
  /\ schedPrompts = 1

\* C8: at the start of every attempt after the operator chose the schedules,
\* the schedules recorded in results followed by those still in
\* tariffs_to_include are the operator's list, and when the call returns,
\* results holds one record for every schedule of that list.
C8_SelectionPreserved ==
  operatorSchedules # None =>
     /\ pc = "enter_ctx" =>
          Schedules(results) \o tariffs_to_include[1] = operatorSchedules[1]
     /\ pc = "returned" => Schedules(results) = operatorSchedules[1]

RECURSIVE IsSubSeq(_, _)
IsSubSeq(a, b) ==
  IF a = <<>> THEN TRUE
  ELSE IF b = <<>> THEN FALSE
  ELSE IF Head(a) = Head(b) THEN IsSubSeq(Tail(a), Tail(b))
  ELSE IsSubSeq(a, Tail(b))

NoDuplicates(l) == \A i, j \in 1..Len(l) : l[i] = l[j] => i = j

Appended == SelectSeq(log, LAMBDA e : e.ev = "append")

\* C9: the recorded schedules follow the order of the operator's list, none is
\* recorded twice, and each record is appended right after the select_schedule
\* call for its schedule returned: select_schedule is called for another
\* schedule only after that append (or after the previous call raised).
C9_OrderedOneAtATime ==
  /\ IF operatorSchedules = None THEN results = <<>>
     ELSE IsSubSeq(Schedules(results), operatorSchedules[1])
  /\ NoDuplicates(Schedules(results))
  /\ Schedules(results) = Schedules(Appended)
  /\ \A i \in 1..Len(log) :
       /\ log[i].ev = "append" =>
            (i > 1 /\ log[i - 1] = [ev |-> "select", schedule |-> log[i].schedule, ok |-> TRUE])
       /\ (log[i].ev = "select" /\ i > 1) =>
            (log[i - 1].ev = "append" \/ ~log[i - 1].ok)
       /\ (log[i].ev = "select" /\ log[i].ok /\ i < Len(log)) =>
            log[i + 1] = [ev |-> "append", schedule |-> log[i].schedule, ok |-> TRUE]

C9_Witness_TwoRecordsAcrossRetry ==
  /\ pc = "returned"
  /\ written # None
  /\ Len(results) = 2
  /\ Len(operatorSchedules[1]) = 3
  /\ attempt >= 2

\* C10: the download directory exists exactly while the scope of
\* create_context is open, whichever way the scope was left: by its end, by
\* a return or an exception inside it, or by a failed browser launch.
C10_TempDirExistsIffScopeOpen ==
  /\ tempdir <=> ctx \in {"starting", "open"}
  /\ ctx = "closed" <=> pc \in {"start", "enter_ctx", "attempt_end", "write",
                                "returned", "raised"}

C10_Witness_EveryExitPath ==
  /\ {"launch_failed", "exception", "normal"} \subseteq exitPaths
  /\ ctx = "closed"
  /\ ~tempdir
  /\ pc = "returned"

\* ------------------------------------------------------------------------
\* The browser process of a session
\* ------------------------------------------------------------------------
\* C11: a session has launched at most one browser, no browser launched by
\* a session is alive once the scope of create_context is closed, and so at
\* most one browser is alive at any time.  (browsers counts the launched
\* drivers on which quit() was not called; create_context never calls it.)
C11_BrowserTerminatedOnExit ==
  /\ browsers <= sessions
  /\ ctx = "closed" => browsers = 0
  /\ browsers <= 1

\* ------------------------------------------------------------------------
\* SpecDownload: ReportState.download_excel, step by step, while the browser
\* writes into the session's download directory.
\* ------------------------------------------------------------------------
\* The largest timeout argument tried (the default of state.py:218 is 20).
MaxTimeout == 2

\* File names are <<stem, extension>>; the names the browser may write.
DirFiles == { <<"r1", "xlsx">>, <<"r2", "xlsx">>, <<"r1", "crdownload">> }

\* state.py:265-267: the names in the folder that end with ".xlsx"
GetXlsx(folder) == { f \in folder : f[2] = "xlsx" }

\* state.py:229: set ^ set
ListingOnly(now, initial) == now

SymDiff(now, initial) == (now \ initial) \cup (initial \ now)

\* state.py:225: the loop test
KeepPollingPastZero(now, initial, k) == now = initial /\ k # -1

KeepPolling(now, initial, k) == now = initial /\ k # 0

\* state.py:229-230: next(iter(...)) takes some element of the set, or raises
\* StopIteration when the set is empty; the path is download_path / filename.
DownloadReturnDefault(diff) == { [err |-> "none", path |-> Some(<<"", "xlsx">>)] }

DownloadReturn(diff) ==
  IF diff = {} THEN { [err |-> "StopIteration", path |-> None] }
  ELSE { [err |-> "none", path |-> Some(f)] : f \in diff }

InitDownload == /\ IdleButDf
                /\ df_pc = "dl_click"
                /\ download_dir \in SUBSET DirFiles
                /\ link_present \in BOOLEAN
                /\ timeout \in 0..MaxTimeout
                /\ initial_state = {}
                /\ dl_n = 0
                /\ filepath = None
                /\ df_err = "none"
                /\ raw_data = <<>>
                /\ df = None
                /\ dir_before = download_dir
                /\ chrome_wrote = {}
                /\ sleeps = 0

\* state.py:220: wait for the "Create Excel Spreadsheet" link and click it.
DlClick ==
  /\ df_pc = "dl_click"
  /\ IF link_present
       THEN df_pc' = "dl_snapshot" /\ UNCHANGED df_err
       ELSE df_pc' = "dl_raised" /\ df_err' = "TimeoutException"
  /\ UNCHANGED <<otherThanDf, download_dir, link_present, timeout, initial_state, dl_n,
                 filepath, raw_data, df, dir_before, chrome_wrote, sleeps>>

\* The browser finishes writing a file of the download that was clicked.
ChromeWrites ==
  /\ df_pc \in {"dl_snapshot", "dl_poll", "dl_final"}
  /\ \E f \in DirFiles \ download_dir :
       /\ download_dir' = download_dir \cup {f}
       /\ chrome_wrote' = chrome_wrote \cup {f}
  /\ UNCHANGED <<otherThanDf, df_pc, link_present, timeout, initial_state, dl_n, filepath,
                 df_err, raw_data, df, dir_before, sleeps>>

\* state.py:221-224: the snapshot of the directory and the countdown.
DlSnapshot ==
  /\ df_pc = "dl_snapshot"
  /\ initial_state' = GetXlsx(download_dir)
  /\ dl_n' = timeout
  /\ df_pc' = "dl_poll"
  /\ UNCHANGED <<otherThanDf, download_dir, link_present, timeout, filepath, df_err,
                 raw_data, df, dir_before, chrome_wrote, sleeps>>

\* state.py:225-227: one test of the loop and, if it holds, one sleep.
DlPoll ==
  /\ df_pc = "dl_poll"
  /\ IF KeepPolling(GetXlsx(download_dir), initial_state, dl_n)
       THEN dl_n' = dl_n - 1 /\ sleeps' = sleeps + 1 /\ UNCHANGED df_pc
       ELSE df_pc' = "dl_final" /\ UNCHANGED <<dl_n, sleeps>>
  /\ UNCHANGED <<otherThanDf, download_dir, link_present, timeout, initial_state, filepath,
                 df_err, raw_data, df, dir_before, chrome_wrote>>

\* state.py:229-230: the directory is listed once more and a name of the
\* difference is returned.
DlFinal ==
  /\ df_pc = "dl_final"
  /\ \E r \in DownloadReturn(SymDiff(GetXlsx(download_dir), initial_state)) :
       /\ filepath' = r.path
       /\ df_err' = r.err
       /\ df_pc' = IF r.err = "none" THEN "dl_returned" ELSE "dl_raised"
  /\ UNCHANGED <<otherThanDf, download_dir, link_present, timeout, initial_state, dl_n,
                 raw_data, df, dir_before, chrome_wrote, sleeps>>

NextDownload == DlClick \/ ChromeWrites \/ DlSnapshot \/ DlPoll \/ DlFinal

SpecDownload == InitDownload /\ [][NextDownload]_vars

\* The spreadsheets in the directory that the snapshot of this call lacks.
NewSpreadsheets == GetXlsx(download_dir) \ initial_state

\* C12: when download_excel has returned a path, the file is a .xlsx file,
\* is in the download directory, was not in the snapshot of this call, and
\* is the new spreadsheet whenever exactly one appeared.
C12_ReturnsNewSpreadsheet ==
  df_pc = "dl_returned" =>
     /\ filepath # None
     /\ filepath[1][2] = "xlsx"
     /\ filepath[1] \in download_dir
     /\ filepath[1] \notin initial_state
     /\ Cardinality(NewSpreadsheets) = 1 => NewSpreadsheets = {filepath[1]}

\* A spreadsheet of an earlier download is in the snapshot, another file is
\* not a spreadsheet, and the one new spreadsheet is returned.
C12_Witness_OneNewAmongOld ==
  /\ df_pc = "dl_returned"
  /\ initial_state = { <<"r1", "xlsx">> }
  /\ download_dir = DirFiles
  /\ filepath = Some(<<"r2", "xlsx">>)

\* C13: when the link was clicked and the directory holds no spreadsheet
\* that the snapshot lacks once the countdown is over, download_excel ends
\* by raising (StopIteration, out of next() on the empty difference) and
\* returns no path.
C13_NoNewSpreadsheetRaises ==
  (df_pc \in {"dl_returned", "dl_raised"} /\ NewSpreadsheets = {}) =>
     /\ df_pc = "dl_raised"
     /\ df_err \in {"StopIteration", "TimeoutException"}
     /\ df_err = "StopIteration" <=> link_present
     /\ filepath = None

\* The countdown ran out over a directory that only got a partial download.
C13_Witness_CountdownRanOut ==
  /\ df_pc = "dl_raised"
  /\ df_err = "StopIteration"
  /\ timeout = MaxTimeout
  /\ dl_n = 0
  /\ download_dir = { <<"r1", "xlsx">>, <<"r1", "crdownload">> }
  /\ initial_state = { <<"r1", "xlsx">> }

\* ------------------------------------------------------------------------
\* The loop from a report back to the schedule dropdown
\* ------------------------------------------------------------------------
\* The Schedule-dropdown state of the report kind of Report class c.
ScheduleDropdownOfKind(c) ==
  CASE c = "ElectricBenchmarkReport" -> "ElectricBenchmarkScheduleDropdown"
    [] c = "ElectricBenchmarkAllReport" -> "ElectricBenchmarkAllScheduleDropdown"
    [] OTHER -> "none"

\* C14: every call of back_to_selections is made on a Report state; when it
\* returns it has clicked the link once, the caller holds the Schedule
\* dropdown state of the same report kind, select_schedule is a method of
\* that state, and the selections page shows the dropdowns as they were, so
\* that neither select_state nor select_utility has to be called again.
C14_BackToSelectionsLoops ==
  [][ lastCall'.op = "back_to_selections" =>
        /\ cur \in ReportClasses
        /\ lastCall'.on = cur
        /\ lastCall'.err = "none" =>
             /\ lastCall'.clicks = 1
             /\ cur' = ScheduleDropdownOfKind(cur)
             /\ "select_schedule" \in Methods(cur')
             /\ ElementId(cur') = "ScheduleSelect"
             /\ dom'.dd = dom.dd
             /\ dom'.page = "entry" => DD(dom', "ScheduleSelect").present ]_vars

\* A Benchmark report was opened for a schedule and left again: the caller
\* holds the Benchmark Schedule dropdown on the selections page.
C14_Witness_BackOnSchedules ==
  /\ lastCall.op = "back_to_selections"
  /\ lastCall.err = "none"
  /\ lastCall.on = "ElectricBenchmarkReport"
  /\ cur = "ElectricBenchmarkScheduleDropdown"
  /\ dom.page = "entry"
  /\ dom.report = <<"A", "A">>
  /\ prog = 6

\* ------------------------------------------------------------------------
\* SpecSections: sections_to_json on the headings and tables of a report page
\* ------------------------------------------------------------------------
\* The longest element sequence tried.
MaxEls == 5

H3(text) == [tag |-> "h3", text |-> text, columns |-> <<>>, rows |-> <<>>]
Table(columns, rows) == [tag |-> "table", text |-> "", columns |-> columns, rows |-> rows]

\* The elements a page is made of: two headings, a table with two columns, a
\* table without header cells, a table with one column whose rows are longer
\* and shorter than its header, a table with two header cells of one text.
Elements == { H3("A"), H3("B"),
              Table(<<"x", "y">>, << <<"1", "2">> >>),
              Table(<<>>, << <<"1">> >>),
              Table(<<"z">>, << <<"1", "2">>, <<>> >>),
              Table(<<"w", "w">>, << <<"1", "2">> >>) }

ElementSeqs == UNION { [1..k -> Elements] : k \in 0..MaxEls }

MinOf(a, b) == IF a <= b THEN a ELSE b

\* report_tables.py:48-50: v[c] = r over zip(columns, row, strict=False); a
\* later pair with the same column replaces the earlier one.
ZipDict(columns, row) ==
  LET k == MinOf(Len(columns), Len(row))
  IN  [c \in {columns[i] : i \in 1..k} |->
         row[CHOOSE i \in 1..k : columns[i] = c /\ \A j \in 1..k : columns[j] = c => j <= i]]

\* report_tables.py:38-59: _table_json
TableJsonKeepEmpty(el) == Some([title |-> "", columns |-> el.columns, values |-> <<>>])

TableJson(el) ==
  IF el.columns = <<>> THEN None
  ELSE Some([title |-> el.columns[1],
             columns |-> el.columns,
             values |-> [i \in 1..Len(el.rows) |-> ZipDict(el.columns, el.rows[i])]])

\* report_tables.py:70 and 78
HasContentTitled(current) == current.section # None

HasContent(current) == current.section # None \/ current.tables # <<>>

\* report_tables.py:67-76: the loop over seq from element i on.
RECURSIVE SectionsLoop(_, _, _, _)
SectionsLoop(els, i, current, acc) ==
  IF i > Len(els)
    THEN [current |-> current, sections |-> acc]
  ELSE IF els[i].tag = "h3"
    THEN SectionsLoop(els, i + 1, [section |-> Some(els[i].text), tables |-> <<>>],
                      IF HasContent(current) THEN Append(acc, current) ELSE acc)
  ELSE LET table == TableJson(els[i])
       IN  SectionsLoop(els, i + 1,
                        IF table # None
                          THEN [current EXCEPT !.tables = Append(@, table[1])]
                          ELSE current,
                        acc)

\* report_tables.py:62-81: sections_to_json
SectionsToJson(els) ==
  LET r == SectionsLoop(els, 1, [section |-> None, tables |-> <<>>], <<>>)
  IN  IF HasContent(r.current) THEN Append(r.sections, r.current) ELSE r.sections

InitSections == /\ IdleButSec
                /\ sec_pc = "call"
                /\ seq \in ElementSeqs
                /\ sections = <<>>

\* state.py:232-233: as_sections
AsSections ==
  /\ sec_pc = "call"
  /\ sections' = SectionsToJson(seq)
  /\ sec_pc' = "returned"
  /\ UNCHANGED <<otherThanSec, seq>>

NextSections == AsSections

SpecSections == InitSections /\ [][NextSections]_vars

\* The positions of the headings in seq, in order, and the position after
\* the last element.
HeadingAt == SelectSeq([i \in 1..Len(seq) |-> i], LAMBDA i : seq[i].tag = "h3")

\* What the claim says of the tables between positions lo and hi: those with
\* at least one column, each with its title, columns and row values.
KeptTablesBetween(lo, hi) ==
  LET idx == SelectSeq([i \in 1..Len(seq) |-> i],
                       LAMBDA i : /\ lo < i /\ i < hi
                                  /\ seq[i].tag = "table"
                                  /\ Len(seq[i].columns) >= 1)
  IN  [j \in 1..Len(idx) |->
         [title |-> seq[idx[j]].columns[1],
          columns |-> seq[idx[j]].columns,
          values |-> [r \in 1..Len(seq[idx[j]].rows) |->
                        ZipDict(seq[idx[j]].columns, seq[idx[j]].rows[r])]]]

EndOf(j) == IF j < Len(HeadingAt) THEN HeadingAt[j + 1] ELSE Len(seq) + 1

\* The sections the headings open, the last one included.
HeadedSections ==
  [j \in 1..Len(HeadingAt) |->
     [section |-> Some(seq[HeadingAt[j]].text),
      tables |-> KeptTablesBetween(HeadingAt[j], EndOf(j))]]

\* The tables that precede every heading belong to a section without name.
LeadingTables == KeptTablesBetween(0, IF HeadingAt = <<>> THEN Len(seq) + 1 ELSE HeadingAt[1])

\* C15: sections_to_json returns one section for every heading, in document
\* order, holding the tables with at least one column that stand between
\* that heading and the next one (or the end); a table without columns is in
\* no section; the section of the last heading is returned without a heading
\* after it; tables that precede every heading form one unnamed first section.
C15_SectionsFollowHeadings ==
  sec_pc = "returned" =>
     /\ sections = (IF LeadingTables = <<>> THEN <<>>
                    ELSE << [section |-> None, tables |-> LeadingTables] >>) \o HeadedSections
     /\ \A i \in 1..Len(sections) : \A j \in 1..Len(sections[i].tables) :
          sections[i].tables[j].columns # <<>>

\* [H3 A, Table(x, y), Table(no columns), H3 B, Table(z)] gave section A with
\* one table and section B with one table.
C15_Witness_Example ==
  /\ sec_pc = "returned"
  /\ seq = << H3("A"), Table(<<"x", "y">>, << <<"1", "2">> >>), Table(<<>>, << <<"1">> >>),
              H3("B"), Table(<<"z">>, << <<"1", "2">>, <<>> >>) >>
  /\ Len(sections) = 2
  /\ sections[1].section = Some("A") /\ Len(sections[1].tables) = 1
  /\ sections[2].section = Some("B") /\ Len(sections[2].tables) = 1
  /\ sections[1].tables[1].columns = <<"x", "y">>
  /\ sections[2].tables[1].title = "z"

\* ------------------------------------------------------------------------
\* SpecDataframe: ReportState.as_dataframe on the sheet of the downloaded file
\* ------------------------------------------------------------------------
\* The largest number of rows of a sheet.
MaxRows == 3

\* The text "Component Description", as two symbols.
Marker == <<"C", "D">>

\* str.__contains__: needle is a substring of text.
IsSubstring(needle, text) ==
  \E i \in 0..(Len(text) - Len(needle)) : SubSeq(text, i + 1, i + Len(needle)) = needle

\* A cell is None (empty) or Some(text).  First cells: empty, blank, a text,
\* the marker, a text that ends with the marker.
FirstCells == { None, Some(<<" ">>), Some(<<"A">>), Some(Marker), Some(<<"A">> \o Marker) }

\* The second and third cell of a row; no row is empty throughout.
RestCells == { <<None, Some(<<"A">>)>>, <<Some(<<" ">>), None>>,
               <<Some(<<"A">>), None>>, <<Some(<<"A">>), Some(<<" ">>)>> }

SheetRows == { <<c>> \o r : c \in FirstCells, r \in RestCells }

Sheets == UNION { [1..k -> SheetRows] : k \in 1..MaxRows }

\* state.py:237: what download_excel gives as_dataframe (see SpecDownload):
\* an error, or the path of a spreadsheet that was not in the folder.
DownloadExcelResults(folder) ==
  { [err |-> "TimeoutException", path |-> None],
    [err |-> "StopIteration", path |-> None] } \cup
  { [err |-> "none", path |-> Some(f)] : f \in GetXlsx(DirFiles) \ folder }

\* state.py:249: filepath.unlink()
UnlinkNothing(folder, path) == folder

Unlink(folder, path) == folder \ {path}

\* state.py:240: next(i for i, row in enumerate(...) if "Component
\* Description" in row[0]), from row i (counted from 0) on.  The test raises
\* TypeError on a first cell that is None; next raises StopIteration when the
\* rows are used up.
RECURSIVE HeaderRowIndex(_, _)
HeaderRowIndex(rows, i) ==
  IF i >= Len(rows) THEN [err |-> "StopIteration", index |-> 0]
  ELSE IF rows[i + 1][1] = None THEN [err |-> "TypeError", index |-> 0]
  ELSE IF IsSubstring(Marker, rows[i + 1][1][1]) THEN [err |-> "none", index |-> i]
  ELSE HeaderRowIndex(rows, i + 1)

\* state.py:242-247: a cell whose text is empty after strip_chars becomes
\* null; a null cell stays null.
NullIfBlank(cell) == IF cell # None /\ Strip(cell[1]) = <<>> THEN None ELSE cell

\* state.py:248: the filter on the first two columns.
KeepRowEither(row) == row[1] # None \/ row[2] # None

KeepRow(row) == row[1] # None /\ row[2] # None

\* state.py:241-248: the sheet read again with row index as header, cleaned
\* and filtered.
CleanedFrame(rows, index) ==
  LET data == SubSeq(rows, index + 2, Len(rows))
      cleaned == [k \in 1..Len(data) |-> [c \in 1..Len(data[k]) |-> NullIfBlank(data[k][c])]]
  IN  [header_row |-> index,
       columns |-> rows[index + 1],
       rows |-> SelectSeq(cleaned, KeepRow)]

InitDataframe == /\ IdleButDf
                 /\ df_pc = "df_call"
                 /\ download_dir \in { {}, { <<"r2", "xlsx">> } }
                 /\ link_present = TRUE
                 /\ timeout = MaxTimeout
                 /\ initial_state = {}
                 /\ dl_n = 0
                 /\ filepath = None
                 /\ df_err = "none"
                 /\ raw_data = <<>>
                 /\ df = None
                 /\ dir_before = download_dir
                 /\ chrome_wrote = {}
                 /\ sleeps = 0

\* state.py:237: filepath = self.download_excel(timeout)
DfDownload ==
  /\ df_pc = "df_call"
  /\ \E r \in DownloadExcelResults(download_dir) :
       /\ df_err' = r.err
       /\ filepath' = r.path
       /\ download_dir' = IF r.err = "none" THEN download_dir \cup {r.path[1]} ELSE download_dir
       /\ chrome_wrote' = IF r.err = "none" THEN chrome_wrote \cup {r.path[1]} ELSE chrome_wrote
       /\ df_pc' = IF r.err = "none" THEN "df_read" ELSE "df_raised"
  /\ UNCHANGED <<otherThanDf, link_present, timeout, initial_state, dl_n, raw_data, df,
                 dir_before, sleeps>>

\* state.py:239-250: the file is read, the header row is looked for, the
\* frame is cleaned, and the file is removed when all of this went through.
DfParse ==
  /\ df_pc = "df_read"
  /\ \E sheet \in Sheets :
       LET h == HeaderRowIndex(sheet, 0)
       IN  /\ raw_data' = sheet
           /\ df_err' = h.err
           /\ IF h.err = "none"
                THEN /\ df' = Some(CleanedFrame(sheet, h.index))
                     /\ download_dir' = Unlink(download_dir, filepath[1])
                     /\ df_pc' = "df_returned"
                ELSE /\ df' = None
                     /\ download_dir' = download_dir
                     /\ df_pc' = "df_raised"
  /\ UNCHANGED <<otherThanDf, link_present, timeout, initial_state, dl_n, filepath,
                 dir_before, chrome_wrote, sleeps>>

\* state.py:321-327: the caller fetches the next schedule in the same session.
DfAgain ==
  /\ df_pc = "df_returned"
  /\ df_pc' = "df_call"
  /\ filepath' = None
  /\ raw_data' = <<>>
  /\ df' = None
  /\ UNCHANGED <<otherThanDf, download_dir, link_present, timeout, initial_state, dl_n,
                 df_err, dir_before, chrome_wrote, sleeps>>

NextDataframe == DfDownload \/ DfParse \/ DfAgain

SpecDataframe == InitDataframe /\ [][NextDataframe]_vars

\* The rows of the sheet that was read whose first cell contains the marker.
MarkerRows == { i \in 1..Len(raw_data) :
                  raw_data[i][1] # None /\ IsSubstring(Marker, raw_data[i][1][1]) }

\* C16: when the sheet that was read has a row whose first cell contains the
\* marker, as_dataframe returns a frame whose header row is the first such
\* row (counted from 0), whatever the rows before it hold.
C16_HeaderIsFirstMarkerRow ==
  (df_pc \in {"df_returned", "df_raised"} /\ raw_data # <<>> /\ MarkerRows # {}) =>
     /\ df_pc = "df_returned"
     /\ df # None
     /\ \A i \in MarkerRows : df[1].header_row + 1 <= i
     /\ df[1].header_row + 1 \in MarkerRows

IsBlank(cell) == cell = None \/ Strip(cell[1]) = <<>>

\* The rows of the sheet below the header row.
DataRows == SubSeq(raw_data, df[1].header_row + 2, Len(raw_data))

\* C17: in the frame as_dataframe returns no cell is blank text (such a cell
\* is null), and its rows are, in their order, the rows below the header
\* whose first and second cell are both not blank, whatever their third cell.
C17_BlankToNullAndRowsFiltered ==
  df_pc = "df_returned" =>
     /\ \A k \in 1..Len(df[1].rows) : \A c \in 1..Len(df[1].rows[k]) :
          df[1].rows[k][c] = None \/ Strip(df[1].rows[k][c][1]) # <<>>
     /\ LET kept == SelectSeq(DataRows, LAMBDA row : ~IsBlank(row[1]) /\ ~IsBlank(row[2]))
        IN  /\ Len(df[1].rows) = Len(kept)
            /\ \A k \in 1..Len(kept) : \A c \in 1..Len(kept[k]) :
                 df[1].rows[k][c] = (IF IsBlank(kept[k][c]) THEN None ELSE kept[k][c])

\* Below the header one row is kept, its blank third cell made null, and one
\* row is dropped for its blank first cell although its second cell has text.
C17_Witness_KeptAndDropped ==
  /\ df_pc = "df_returned"
  /\ raw_data = << <<Some(Marker), Some(<<"A">>), None>>,
                   <<Some(<<"A">>), Some(<<"A">>), Some(<<" ">>)>>,
                   <<Some(<<" ">>), Some(<<"A">>), None>> >>
  /\ df[1].rows = << <<Some(<<"A">>), Some(<<"A">>), None>> >>
  /\ filepath[1] \notin download_dir

\* ------------------------------------------------------------------------
\* SpecTariffsPaginate and SpecIterUtilityRates: the two paging generators,
\* driven by a consumer that takes every item, against an API that serves
\* its records in order from the requested offset.
\* ------------------------------------------------------------------------
\* The largest number of records the API holds, the largest page_count
\* argument or page limit, and the largest start / iter_offset argument.
MaxRecords == 4
MaxPageCount == 3
MaxStart == 1

RecordLists == { [i \in 1..k |-> i] : k \in 0..MaxRecords }

\* The page of at most count records from position from (counted from 0).
ServePage(data, from, count) == SubSeq(data, from + 1, MinOf(from + count, Len(data)))

\* genability/tariffs.py:69: while rows >= page_count
ContinueWhileAny(rows, count) == rows > 0

ContinueTariffs(rows, count) == rows >= count

\* openei/utility_rates.py:239: while rows
ContinueOnce(rows) == FALSE

ContinueRates(rows) == rows # 0

InitTariffsPaginate == /\ IdleButPg
                       /\ pg_pc = "tp_test"
                       /\ records \in RecordLists
                       /\ start \in 0..MaxStart
                       /\ page_count \in 1..MaxPageCount
                       /\ limit = 0
                       /\ offset = start
                       /\ n_rows = page_count
                       /\ pg_page = <<>>
                       /\ yielded = <<>>
                       /\ requests = <<>>

\* genability/tariffs.py:69-72: the loop test and, if it holds, one request
\* with pageStart = offset and pageCount = page_count.
TpRequest ==
  /\ pg_pc = "tp_test"
  /\ IF ContinueTariffs(n_rows, page_count)
       THEN LET page_results == ServePage(records, offset, page_count)
            IN  /\ requests' = Append(requests, [pageStart |-> offset, pageCount |-> page_count,
                                                 yieldedBefore |-> Len(yielded),
                                                 rows |-> Len(page_results)])
                /\ n_rows' = Len(page_results)
                /\ offset' = offset + Len(page_results)
                /\ pg_page' = page_results
                /\ pg_pc' = "tp_yield"
       ELSE /\ pg_pc' = "returned"
            /\ UNCHANGED <<requests, n_rows, offset, pg_page>>
  /\ UNCHANGED <<otherThanPg, records, start, page_count, limit, yielded>>

\* genability/tariffs.py:73: yield from page["results"], one item at a time.
TpYield ==
  /\ pg_pc = "tp_yield"
  /\ IF pg_page = <<>>
       THEN pg_pc' = "tp_test" /\ UNCHANGED <<yielded, pg_page>>
       ELSE /\ yielded' = Append(yielded, Head(pg_page))
            /\ pg_page' = Tail(pg_page)
            /\ UNCHANGED pg_pc
  /\ UNCHANGED <<otherThanPg, records, start, page_count, limit, offset, n_rows, requests>>

NextTariffsPaginate == TpRequest \/ TpYield

SpecTariffsPaginate == InitTariffsPaginate /\ [][NextTariffsPaginate]_vars

\* Python values as the query parameters hold them: an int, a bool (an int
\* subclass whose True is 1 and False is 0) and a str.
PyInt(i) == [kind |-> "int", num |-> i, txt |-> ""]
PyBool(b) == [kind |-> "bool", num |-> IF b THEN 1 ELSE 0, txt |-> ""]
PyStr(s) == [kind |-> "str", num |-> 0, txt |-> s]

\* Python's == (and hash) on these values, as a dict lookup uses it: numbers
\* compare by value whatever their type, a str only equals the same str.
PyEq(a, b) ==
  IF a.kind = "str" \/ b.kind = "str"
    THEN a.kind = b.kind /\ a.txt = b.txt
    ELSE a.num = b.num

\* openei/base.py:13-14: {True: "true", False: "false"}.get(value, value)
ConvertParam(value) ==
  IF PyEq(value, PyBool(TRUE)) THEN PyStr("true")
  ELSE IF PyEq(value, PyBool(FALSE)) THEN PyStr("false")
  ELSE value

InitIterUtilityRates == /\ IdleButPg
                        /\ pg_pc = "ur_test"
                        /\ records \in RecordLists
                        /\ start \in 0..MaxStart
                        /\ page_count = 0
                        /\ limit \in 1..MaxPageCount
                        /\ offset = start
                        /\ n_rows = 1
                        /\ pg_page = <<>>
                        /\ yielded = <<>>
                        /\ requests = <<>>

\* openei/utility_rates.py:239-243: the loop test and, if it holds, one call
\* of utility_rates with the offset, which api_request_json (openei/base.py:18)
\* passes through convert_params on its way to the query; the API answers
\* with at most limit items.
UrRequest ==
  /\ pg_pc = "ur_test"
  /\ IF ContinueRates(n_rows)
       THEN LET items == ServePage(records, offset, limit)
            IN  /\ requests' = Append(requests, [offset |-> offset,
                                                 query |-> ConvertParam(PyInt(offset)),
                                                 yieldedBefore |-> Len(yielded),
                                                 rows |-> Len(items)])
                /\ n_rows' = Len(items)
                /\ offset' = offset + Len(items)
                /\ pg_page' = items
                /\ pg_pc' = "ur_yield"
       ELSE /\ pg_pc' = "returned"
            /\ UNCHANGED <<requests, n_rows, offset, pg_page>>
  /\ UNCHANGED <<otherThanPg, records, start, page_count, limit, yielded>>

\* openei/utility_rates.py:244: yield from items, one item at a time.
UrYield ==
  /\ pg_pc = "ur_yield"
  /\ IF pg_page = <<>>
       THEN pg_pc' = "ur_test" /\ UNCHANGED <<yielded, pg_page>>
       ELSE /\ yielded' = Append(yielded, Head(pg_page))
            /\ pg_page' = Tail(pg_page)
            /\ UNCHANGED pg_pc
  /\ UNCHANGED <<otherThanPg, records, start, page_count, limit, offset, n_rows, requests>>

NextIterUtilityRates == UrRequest \/ UrYield

SpecIterUtilityRates == InitIterUtilityRates /\ [][NextIterUtilityRates]_vars

\* The records from the start position on, and how many they are.
Served == SubSeq(records, start + 1, Len(records))

IsPrefix(a, b) == Len(a) <= Len(b) /\ a = SubSeq(b, 1, Len(a))

\* C18: every request of tariffs_paginate carries pageStart = start + the
\* number of records yielded before it and pageCount = page_count; what is
\* yielded is, in order, the records served from start on; every page but
\* the last is full, and when the generator ends the last page was short,
\* every served record was yielded once, and floor(N / page_count) + 1
\* requests were made for the N records served.
C18_TariffsPaginatePagesToShortPage ==
  /\ \A k \in 1..Len(requests) :
       /\ requests[k].pageStart = start + requests[k].yieldedBefore
       /\ requests[k].pageCount = page_count
       /\ k < Len(requests) => requests[k].rows = page_count
  /\ IsPrefix(yielded, Served)
  /\ pg_pc = "returned" =>
       /\ requests # <<>>
       /\ yielded = Served
       /\ requests[Len(requests)].rows < page_count
       /\ Len(requests) = (Len(Served) \div page_count) + 1

\* Four records in pages of two: two full pages and an empty third one.
C18_Witness_ThreeRequests ==
  /\ pg_pc = "returned"
  /\ page_count = 2
  /\ start = 0
  /\ yielded = <<1, 2, 3, 4>>
  /\ Len(requests) = 3
  /\ requests[3] = [pageStart |-> 4, pageCount |-> 2, yieldedBefore |-> 4, rows |-> 0]

\* C19: the k-th call of utility_rates carries offset = iter_offset + the
\* number of items yielded before it; what is yielded is, in order and once
\* each, the items of the responses; only the last response can be empty,
\* and when the generator ends the last response was empty and every record
\* from iter_offset on was yielded.
C19_IterUtilityRatesToEmptyResponse ==
  /\ \A k \in 1..Len(requests) :
       /\ requests[k].offset = start + requests[k].yieldedBefore
       /\ k < Len(requests) => requests[k].rows > 0
  /\ IsPrefix(yielded, Served)
  /\ Len(yielded) + Len(pg_page) = offset - start
  /\ pg_pc = "returned" =>
       /\ requests # <<>>
       /\ requests[Len(requests)].rows = 0
       /\ yielded = Served
       /\ \A i, j \in 1..Len(yielded) : yielded[i] = yielded[j] => i = j

\* Three records from offset 1 with at most two items per response: one
\* response with two items, then the empty one.
C19_Witness_EndsOnEmptyResponse ==
  /\ pg_pc = "returned"
  /\ Len(records) = 3
  /\ start = 1
  /\ limit = 2
  /\ yielded = <<2, 3>>
  /\ Len(requests) = 2
  /\ requests[2].offset = 3

\* ------------------------------------------------------------------------
\* Spec of cli.main: the provider blocks, one after the other
\* ------------------------------------------------------------------------
\* _cli/types.py:5-9
Providers == {"Genability", "OpenEI", "RateAcuity", "PUDL"}

RestProviders == {"Genability", "OpenEI"}

\* What a REST API answers to the requests of one run: success, or one of
\* the two authorization failures.
StatusCodes == {200, 401, 403}

\* cli.py:124 and 136: the status code each handler reports.
HandledStatus(provider) == IF provider = "Genability" THEN 401 ELSE 403

\* cli.py:127, 138: the credential the report names.
Credential(provider) ==
  IF provider = "Genability" THEN "ARCADIA_APP_ID, ARCADIA_APP_KEY" ELSE "OPENEI_API_KEY"

\* The environment variables a provider reads its credentials from:
\* genability/base.py:14-19, _cli/openei.py:38-40, _cli/rateacuity.py:89-92.
CredentialVars(provider) ==
  CASE provider = "Genability" -> {"ARCADIA_APP_ID", "ARCADIA_APP_KEY"}
    [] provider = "OpenEI" -> {"OPENEI_API_KEY"}
    [] provider = "RateAcuity" -> {"RATEACUITY_USERNAME", "RATEACUITY_PASSWORD"}
    [] OTHER -> {}

EnvVars == UNION { CredentialVars(p) : p \in Providers }

\* The test the provider makes before it uses its credentials: every variable
\* is set; the ValueError it raises otherwise is caught by no handler of main.
CredentialsSet(provider) == CredentialVars(provider) \subseteq env

InitMain == /\ IdleButMain
            /\ main_pc = "prompt_utility"
            /\ providers_ \in (SUBSET Providers) \ { {} }
            /\ api_status \in [RestProviders -> StatusCodes]
            /\ processed = <<>>
            /\ auth_reports = <<>>
            /\ main_raised = "none"
            /\ env \in SUBSET EnvVars
            /\ io = <<>>

\* cli.py:117 and 40-58: prompt_utility reads the EIA sales table over https
\* before it shows the utilities.
MainPromptUtility ==
  /\ main_pc = "prompt_utility"
  /\ io' = Append(io, "GET pudl.catalyst.coop")
  /\ main_pc' = "genability"
  /\ UNCHANGED <<otherThanMain, providers_, api_status, processed, auth_reports,
                 main_raised, env>>

\* The block of a REST provider: skipped when the provider is not selected;
\* else its process function is called.  It tests its credentials just before
\* its first request and raises ValueError when one is missing; the request is
\* sent, raise_for_status raises HTTPError on 401 and 403, and the handler
\* reports the one status it tests for and raises the error again otherwise.
RestBlock(provider, next) ==
  IF provider \notin providers_
    THEN /\ main_pc' = next
         /\ UNCHANGED <<processed, auth_reports, main_raised, io>>
    ELSE /\ processed' = Append(processed, provider)
         /\ IF ~CredentialsSet(provider)
              THEN /\ main_raised' = "ValueError"
                   /\ main_pc' = "raised"
                   /\ UNCHANGED <<auth_reports, io>>
            ELSE /\ io' = Append(io, "GET " \o provider)
                 /\ IF api_status[provider] = 200
                      THEN /\ main_pc' = next
                           /\ UNCHANGED <<auth_reports, main_raised>>
                    ELSE IF api_status[provider] = HandledStatus(provider)
                      THEN /\ auth_reports' = Append(auth_reports, Credential(provider))
                           /\ main_pc' = next
                           /\ UNCHANGED main_raised
                    ELSE /\ main_raised' = "HTTPError"
                         /\ main_pc' = "raised"
                         /\ UNCHANGED auth_reports

\* cli.py:119-130
MainGenability ==
  /\ main_pc = "genability"
  /\ RestBlock("Genability", "openei")
  /\ UNCHANGED <<otherThanMain, providers_, api_status, env>>

\* cli.py:131-140
MainOpenEI ==
  /\ main_pc = "openei"
  /\ RestBlock("OpenEI", "rateacuity")
  /\ UNCHANGED <<otherThanMain, providers_, api_status, env>>

\* cli.py:141-149: process_rateacuity tests its two variables first
\* (_cli/rateacuity.py:89-92); with both set it opens its session and logs in,
\* and returns or raises (see Spec); none of its errors is the
\* AuthorizationError the handler names.
MainRateAcuity ==
  /\ main_pc = "rateacuity"
  /\ IF "RateAcuity" \notin providers_
       THEN /\ main_pc' = "returned"
            /\ UNCHANGED <<processed, main_raised, io>>
       ELSE /\ processed' = Append(processed, "RateAcuity")
            /\ IF ~CredentialsSet("RateAcuity")
                 THEN /\ main_raised' = "ValueError"
                      /\ main_pc' = "raised"
                      /\ UNCHANGED io
                 ELSE /\ io' = io \o <<"create_context", "login">>
                      /\ \E e \in {"none", "RetryError", "ValueError", "RuntimeError"} :
                           /\ main_raised' = e
                           /\ main_pc' = IF e = "none" THEN "returned" ELSE "raised"
  /\ UNCHANGED <<otherThanMain, providers_, api_status, auth_reports, env>>

NextMain == MainPromptUtility \/ MainGenability \/ MainOpenEI \/ MainRateAcuity

SpecMain == InitMain /\ [][NextMain]_vars

\* The order of the provider blocks in main.
BlockOrder == <<"Genability", "OpenEI", "RateAcuity">>

InSeq(x, l) == \E i \in 1..Len(l) : l[i] = x

\* C20: when the process function of a selected REST provider was called and
\* its API answered 401 or 403, main has reported the authorization failure
\* with that provider's credential, has not ended with the HTTP error, and
\* once main has ended every selected provider of a later block was processed.
C20_AuthFailureReportedAndRunContinues ==
  \A i \in 1..Len(BlockOrder) :
    LET p == BlockOrder[i]
    IN  (p \in RestProviders /\ InSeq("GET " \o p, io) /\ api_status[p] \in {401, 403}) =>
           /\ InSeq(Credential(p), auth_reports)
           /\ main_raised # "HTTPError"
           /\ main_pc \in {"returned", "raised"} =>
                \A j \in (i + 1)..Len(BlockOrder) :
                   BlockOrder[j] \in providers_ => InSeq(BlockOrder[j], processed)

\* ------------------------------------------------------------------------
\* Missing credentials
\* ------------------------------------------------------------------------
\* The selected providers, among those main has a block for, that lack a
\* credential variable.
LackingCredentials == { p \in providers_ : ~CredentialsSet(p) }

\* C21: when main ends with the configuration error of a selected provider
\* whose credential is missing, no network request was sent and no browser
\* session was created before it in that run; and with a RateAcuity variable
\* unset neither create_context nor login is ever invoked.
C21_ConfigurationErrorBeforeAnyActivity ==
  /\ (main_raised = "ValueError" /\ LackingCredentials # {}) => io = <<>>
  /\ ~CredentialsSet("RateAcuity") => ~InSeq("create_context", io) /\ ~InSeq("login", io)

\* ------------------------------------------------------------------------
\* Login that is not accepted
\* ------------------------------------------------------------------------
\* C22: in an open session the caller holds a state past LoginState only if
\* the portal accepted the login: when the login link is still there after
\* the credentials were submitted, login gives no Portal state and no later
\* navigation step is made in that session.
C22_NoPortalStateWithoutAuthentication ==
  (ctx = "open" /\ scraping_state \notin {"none", "LoginState"}) => dom.authed

\* ------------------------------------------------------------------------
\* A provider that finds nothing
\* ------------------------------------------------------------------------
\* An attempt ended on the test of _cli/rateacuity.py:108: the portal showed
\* no utility for the state.
NoUtilitiesFound == InSeq("RuntimeError", attemptErrs)

\* C23: when RateAcuity showed no utility for the state, process_rateacuity
\* ends by returning to main, not by an exception, and writes no output file.
C23_NoUtilitiesEndsNormally ==
  (pc \in {"returned", "raised"} /\ NoUtilitiesFound) =>
     /\ pc = "returned"
     /\ raised = "none"
     /\ written = None

\* ------------------------------------------------------------------------
\* SpecFilename: prompt_filename, the default it computes and the operator's
\* answers to the path prompt
\* ------------------------------------------------------------------------
\* The largest number a file in the folder carries.
MaxN == 2

\* _cli/__init__.py:19: range(0xFFFFFF)
RangeLimit == 16777215

\* _cli/__init__.py:13: the date of the run, as one symbol.
Today == "2026-11-05"

\* Characters that may not be part of a file name.
InvalidChars == {"/", ":"}

\* _cli/__init__.py:14: sanitize_filename drops the invalid characters.
SanitizeFilename(name) == SelectSeq(name, LAMBDA c : c \notin InvalidChars)

\* _cli/__init__.py:20: f"{suggested_filename}-{i}{os.extsep}{extension}"
FileName(stem, i, ext) == stem \o <<"-", ToString(i), ".", ext>>

\* The suggested_filename arguments tried.
Prefixes == { <<"A">>, <<"A", "/">>, <<"B", ":", "B">> }

\* The names that may be in the output folder: numbered results of this
\* day for prefix A, one of another extension and one of another prefix.
FolderNames ==
  { FileName(<<"A", "_", Today>>, i, "json") : i \in 0..MaxN } \cup
  { FileName(<<"A", "_", Today>>, 0, "csv"), FileName(<<"B", "B", "_", Today>>, 1, "json") }

\* _cli/__init__.py:17-22: next() over the numbers from i on of the first
\* name that is not in the folder; StopIteration past the end of the range.
NextFreeAlwaysFirst(stem, ext, existing_filenames, i) ==
  [err |-> "none", path |-> Some(FileName(stem, i, ext))]

RECURSIVE NextFree(_, _, _, _)
NextFree(stem, ext, existing_filenames, i) ==
  IF i >= RangeLimit THEN [err |-> "StopIteration", path |-> None]
  ELSE IF FileName(stem, i, ext) \notin existing_filenames
    THEN [err |-> "none", path |-> Some(FileName(stem, i, ext))]
  ELSE NextFree(stem, ext, existing_filenames, i + 1)

\* _cli/__init__.py:31: the validator of the path prompt.
PathAccepted(path, folder) == ~(folder.exists /\ path \in folder.entries)

InitFilename == /\ IdleButFn
                /\ fn_pc = "call"
                /\ \E e \in BOOLEAN, names \in SUBSET FolderNames :
                     output_folder = [exists |-> e, entries |-> IF e THEN names ELSE {}]
                /\ suggested_filename \in Prefixes
                /\ extension = "json"
                /\ fn_filepath = None
                /\ fn_rejected = {}
                /\ fn_result = None

\* _cli/__init__.py:13-24: the default path.
FnDefault ==
  /\ fn_pc = "call"
  /\ LET stem == SanitizeFilename(suggested_filename \o <<"_", Today>>)
         r == IF output_folder.exists
                THEN NextFree(stem, extension, output_folder.entries, 0)
                ELSE [err |-> "none", path |-> Some(FileName(stem, 0, extension))]
     IN  /\ fn_filepath' = r.path
         /\ fn_pc' = IF r.err = "none" THEN "prompt" ELSE "raised"
  /\ UNCHANGED <<otherThanFn, output_folder, suggested_filename, extension, fn_rejected,
                 fn_result>>

\* _cli/__init__.py:26-33: the operator confirms the default or a path typed
\* over it; the prompt refuses a path the validator does not accept and asks
\* again; ask() gives None when the operator cancels and Path(None) raises.
FnAnswer ==
  /\ fn_pc = "prompt"
  /\ \E answer \in {None, fn_filepath} \cup {Some(f) : f \in FolderNames} :
       IF answer = None
         THEN fn_pc' = "raised" /\ UNCHANGED <<fn_rejected, fn_result>>
       ELSE IF PathAccepted(answer[1], output_folder)
         THEN fn_pc' = "returned" /\ fn_result' = answer /\ UNCHANGED fn_rejected
       ELSE /\ fn_rejected' = fn_rejected \cup {answer[1]}
            /\ UNCHANGED <<fn_pc, fn_result>>
  /\ UNCHANGED <<otherThanFn, output_folder, suggested_filename, extension, fn_filepath>>

NextFilename == FnDefault \/ FnAnswer

SpecFilename == InitFilename /\ [][NextFilename]_vars

\* The numbers N for which the folder has no entry named
\* {sanitized prefix}_{date}-{N}.{ext}.
FreeNumbers ==
  { i \in 0..(MaxN + 1) :
      FileName(SanitizeFilename(suggested_filename) \o <<"_", Today>>, i, extension)
        \notin output_folder.entries }

\* C24: the default path prompt_filename shows is
\* {sanitized prefix}_{date}-{N}.{ext} with N the smallest number whose name
\* is not in the output folder (0 when the folder does not exist), and the
\* path it returns is one at which no file existed: an existing path the
\* operator confirmed was refused.
C24_SmallestFreeNumberAndNoOverwrite ==
  /\ fn_pc \in {"prompt", "returned"} =>
       \E i \in FreeNumbers :
          /\ \A j \in FreeNumbers : i <= j
          /\ ~output_folder.exists => i = 0
          /\ fn_filepath =
               Some(FileName(SanitizeFilename(suggested_filename) \o <<"_", Today>>, i, extension))
  /\ fn_pc = "returned" => fn_result # None /\ fn_result[1] \notin output_folder.entries
  /\ fn_rejected \subseteq output_folder.entries

\* Numbers 0 and 1 are taken, the default carries 2, the operator first
\* confirmed the existing number 1, was refused, and then took the default.
C24_Witness_ThirdFileOfTheDay ==
  /\ fn_pc = "returned"
  /\ suggested_filename = <<"A", "/">>
  /\ fn_filepath = Some(<<"A", "_", Today, "-", "2", ".", "json">>)
  /\ fn_rejected = { <<"A", "_", Today, "-", "1", ".", "json">> }
  /\ fn_result = fn_filepath

\* ------------------------------------------------------------------------
\* Exact match before trimmed match
\* ------------------------------------------------------------------------
\* C25: when a live option equals the choice exactly, _select returns with
\* that option as the dropdown's selected option, whatever other option has
\* the same trimmed text; and with no exact match but a trimmed one, it
\* returns with an option of that trimmed text selected.
C25_ExactMatchIsTheOneSelected ==
  (s_pc = "done" /\ s_dd.present) =>
     /\ InList(s_choice, s_dd.opts) =>
          /\ s_res.err = "none"
          /\ s_res.dd.opts[s_res.dd.sel] = s_choice
     /\ (~InList(s_choice, s_dd.opts) /\ NormalizedHas(s_dd.opts, Strip(s_choice))) =>
          /\ s_res.err = "none"
          /\ Strip(s_res.dd.opts[s_res.dd.sel]) = Strip(s_choice)

\* ------------------------------------------------------------------------
\* The snapshot and the click; the polling bound
\* ------------------------------------------------------------------------
\* C26: a spreadsheet the browser wrote after the click and before the last
\* listing of the directory is detected as new: download_excel then returns,
\* and returns a file written since the click.
C26_WrittenAfterClickIsDetected ==
  (df_pc \in {"dl_returned", "dl_raised"} /\ link_present /\ GetXlsx(chrome_wrote) # {}) =>
     /\ df_pc = "dl_returned"
     /\ filepath[1] \in chrome_wrote

\* A step of download_excel itself (not of the browser).
IsDownloadStep == df_pc' # df_pc \/ dl_n' # dl_n

\* What is left of download_excel to do, at most.
StepsLeft == CASE df_pc = "dl_click" -> timeout + 4
               [] df_pc = "dl_snapshot" -> timeout + 3
               [] df_pc = "dl_poll" -> (timeout - sleeps) + 2
               [] df_pc = "dl_final" -> 1
               [] OTHER -> 0

\* C27: download_excel sleeps at most timeout times and every step of it
\* brings it nearer to its end (so it ends, by returning or raising, whether
\* or not a file appears); a poll that finds the spreadsheet names differing
\* from the snapshot leaves the loop without a sleep.
C27_AtMostTimeoutSleeps ==
  [][ IsDownloadStep =>
        /\ sleeps' <= timeout
        /\ StepsLeft' < StepsLeft
        /\ StepsLeft' >= 0
        /\ (df_pc = "dl_poll" /\ GetXlsx(download_dir) # initial_state) =>
              (df_pc' = "dl_final" /\ sleeps' = sleeps)
        /\ df_pc = "dl_final" => df_pc' \in {"dl_returned", "dl_raised"} ]_vars

\* With the largest timeout the file appeared during the first sleep and the
\* call returned after that one sleep.
C27_Witness_StoppedAtFirstChange ==
  /\ df_pc = "dl_returned"
  /\ timeout = MaxTimeout
  /\ sleeps = 1
  /\ initial_state = {}
  /\ chrome_wrote = { <<"r1", "xlsx">> }

\* ------------------------------------------------------------------------
\* The raw download after parsing
\* ------------------------------------------------------------------------
\* C28: when as_dataframe has returned, the file it downloaded is no longer
\* in the download directory and the directory holds the spreadsheets it held
\* before the session's first fetch: no raw download is left, however many
\* fetches went before.
C28_DownloadDeletedAfterParsing ==
  df_pc = "df_returned" =>
     /\ filepath[1] \notin download_dir
     /\ GetXlsx(download_dir) = GetXlsx(dir_before)

\* Two fetches of the session downloaded two different spreadsheets into the
\* empty directory, and it is empty after the second.
C28_Witness_TwoFetches ==
  /\ df_pc = "df_returned"
  /\ dir_before = {}
  /\ chrome_wrote = { <<"r1", "xlsx">>, <<"r2", "xlsx">> }
  /\ download_dir = {}
  /\ filepath = Some(<<"r1", "xlsx">>)

\* ------------------------------------------------------------------------
\* The emitted tables
\* ------------------------------------------------------------------------
\* The tables of all sections, in their order.
RECURSIVE TablesFrom(_, _)
TablesFrom(secs, i) ==
  IF i > Len(secs) THEN <<>> ELSE secs[i].tables \o TablesFrom(secs, i + 1)

\* The table elements of seq that have header cells, in document order.
TablesWithColumns == SelectSeq(seq, LAMBDA el : el.tag = "table" /\ el.columns # <<>>)

\* C29: every emitted table has columns, its title is its first column, its
\* values hold one mapping per body row in row order, and the mapping of a
\* row maps the i-th column to the row's i-th cell for every i up to the
\* shorter of the two lengths and has no other key.
C29_TableValuesZipColumnsAndCells ==
  sec_pc = "returned" =>
    LET emitted == TablesFrom(sections, 1)
    IN  /\ Len(emitted) = Len(TablesWithColumns)
        /\ \A t \in 1..Len(emitted) :
             LET el == TablesWithColumns[t]
             IN  /\ emitted[t].columns # <<>>
                 /\ emitted[t].columns = el.columns
                 /\ emitted[t].title = emitted[t].columns[1]
                 /\ Len(emitted[t].values) = Len(el.rows)
                 /\ \A r \in 1..Len(el.rows) :
                      LET k == MinOf(Len(el.columns), Len(el.rows[r]))
                      IN  /\ DOMAIN emitted[t].values[r] = {el.columns[i] : i \in 1..k}
                          /\ \A i \in 1..k :
                               emitted[t].values[r][el.columns[i]] = el.rows[r][i]

\* ------------------------------------------------------------------------
\* Operations and the screen they act on
\* ------------------------------------------------------------------------
\* C30: as_sections, like every operation on a Report state, gives its data
\* only when the report screen is shown and fails otherwise: every record
\* process_rateacuity appended was read from a report screen.
C30_SectionsReadOnlyFromReportScreen ==
  \A i \in 1..Len(results) : results[i].page = "report"

\* The radio value and the State-dropdown class of each report-kind method.
ReportValue(m) == IF m = "benchmark" THEN "benchmark" ELSE "benchall"

StateDropdownOfKind(m) ==
  IF m = "benchmark" THEN "ElectricBenchmarkStateDropdown"
                     ELSE "ElectricBenchmarkAllStateDropdown"

\* C31: a call of benchmark or benchmark_all that returns has clicked the
\* radio button exactly when it was not selected before the call (once then,
\* never otherwise), a call that found it selected leaves the page as it
\* was, the caller holds the State-dropdown state of that kind in both
\* cases, and calling the method again while the kind is active has the one
\* outcome of no click and an unchanged page.
C31_SelectReportIdempotent ==
  [][ (lastCall'.op \in {"benchmark", "benchmark_all"} /\ lastCall'.err = "none") =>
        LET kind == ReportValue(lastCall'.op)
        IN  /\ lastCall'.clicks = (IF dom.radio = kind THEN 0 ELSE 1)
            /\ dom.radio = kind => dom' = dom
            /\ cur' = StateDropdownOfKind(lastCall'.op)
            /\ lastCall'.ret = cur'
            /\ (dom'.page = "entry" /\ dom'.radio = kind) =>
                 SelectReportOutcomes(dom', kind) = { Outcome("none", dom', 0) } ]_vars

\* benchmark_all was called on a page whose Benchmark All radio button was
\* already selected: no click, and the caller holds its State dropdown.
C31_Witness_AlreadySelected ==
  /\ lastCall.op = "benchmark_all"
  /\ lastCall.err = "none"
  /\ lastCall.clicks = 0
  /\ dom.radio = "benchall"
  /\ dom.page = "entry"
  /\ cur = "ElectricBenchmarkAllStateDropdown"

\* C32: when the call returns after the operator chose at least one
\* schedule, the output-file step was reached and the records gathered in
\* results were written.
C32_SelectionIsWritten ==
  (operatorSchedules # None /\ pc = "returned") => written = Some(results)

\* C33: whenever select_schedule has returned a Report state and the portal
\* has not answered with its error page, the browser shows a report screen
\* with a report on it.
C33_ReportScreenAfterSelectSchedule ==
  (lastCall.op = "select_schedule" /\ lastCall.err = "none" /\ dom.page # "error") =>
     /\ cur \in ReportClasses
     /\ dom.page = "report"
     /\ dom.report # NoReport

\* C34: after _select returned without error, the option the dropdown shows
\* as selected is the visible option the choice was resolved to.
C34_SelectedIsResolvedOption ==
  (s_pc = "done" /\ s_res.err = "none") =>
     /\ s_res.dd.sel \in 1..Len(s_res.dd.opts)
     /\ s_res.dd.opts[s_res.dd.sel] = Resolve(VisibleOptions(s_dd), s_choice).visible_choice

\* Some table with at least one column stands between positions lo and hi.
TableWithColumnsBetween(lo, hi) ==
  \E i \in 1..Len(seq) : /\ lo < i /\ i < hi
                         /\ seq[i].tag = "table"
                         /\ Len(seq[i].columns) >= 1

FirstHeading == IF HeadingAt = <<>> THEN Len(seq) + 1 ELSE HeadingAt[1]

\* C35: sections_to_json returns exactly one titled section per heading, in
\* document order, a heading with no table with columns after it giving a
\* section with an empty table list; a section with a null title is returned
\* if and only if a table with columns precedes the first heading, there is
\* one of it and it comes first; with no heading and no such table the
\* result is empty.
C35_OneSectionPerHeading ==
  sec_pc = "returned" =>
     LET titled == SelectSeq(sections, LAMBDA s : s.section # None)
         untitled == SelectSeq(sections, LAMBDA s : s.section = None)
         leading == TableWithColumnsBetween(0, FirstHeading)
     IN  /\ Len(titled) = Len(HeadingAt)
         /\ \A j \in 1..Len(titled) :
              /\ titled[j].section = Some(seq[HeadingAt[j]].text)
              /\ ~TableWithColumnsBetween(HeadingAt[j], EndOf(j)) => titled[j].tables = <<>>
         /\ Len(untitled) = (IF leading THEN 1 ELSE 0)
         /\ leading => sections[1].section = None
         /\ Len(sections) = Len(HeadingAt) + (IF leading THEN 1 ELSE 0)
         /\ (HeadingAt = <<>> /\ ~leading) => sections = <<>>

\* [Table(z), H3 A, H3 B, Table(no columns)] gave a leading section without
\* title and the sections A and B, both with an empty table list.
C35_Witness_LeadingAndEmptySections ==
  /\ sec_pc = "returned"
  /\ seq = << Table(<<"z">>, << <<"1", "2">>, <<>> >>), H3("A"), H3("B"),
              Table(<<>>, << <<"1">> >>) >>
  /\ Len(sections) = 3
  /\ sections[1].section = None /\ Len(sections[1].tables) = 1
  /\ sections[2] = [section |-> Some("A"), tables |-> <<>>]
  /\ sections[3] = [section |-> Some("B"), tables |-> <<>>]

\* C36: convert_params leaves an integer parameter unchanged, so that the
\* offset of every request of iter_utility_rates, the 0 of the first request
\* included, reaches the HTTP query as the same integer.
C36_OffsetReachesQueryAsInteger ==
  \A k \in 1..Len(requests) :
     /\ ConvertParam(PyInt(requests[k].offset)) = PyInt(requests[k].offset)
     /\ requests[k].query = PyInt(requests[k].offset)

=============================================================================
